---- MODULE Spec2Model ----
(***************************************************************************)
(* Model of the Elvanto export backend: the paginated fetches of           *)
(* ElvantoClient, the inclusion predicate, the volunteer-position          *)
(* extractor and the filter_people orchestrator.                           *)
(*                                                                         *)
(* Python values are modelled as follows.                                  *)
(*   - a str is a sequence of one-character strings, so that lower() and   *)
(*     str() are computed and not assumed;                                 *)
(*   - a scalar that may be an int, a str, a bool or missing is a record   *)
(*     [t, i, s] with t in {"absent", "int", "str", "bool"};               *)
(*   - a one-or-many field is a record [t, xs] with t in                   *)
(*     {"absent", "one", "list"}.                                          *)
(***************************************************************************)
EXTENDS Integers, Sequences, FiniteSets, TLC

VARIABLES
    \* ---- paginated fetch (ElvantoClient.get_all_*) ----
    kind,         \* which fetch runs: "groups_people", "groups_categories", "people"
    adults_only,  \* argument of get_all_people_with_departments
    srv,          \* the remote collection and the way the server reports it
    page,         \* local variable page
    all_items,    \* local variable all_groups / all_people (indices of the items)
    requests,     \* pages requested from the server so far, in order
    last,         \* what the last answered request returned
    pc,           \* "fetching", "returned" or "raised"
    result,       \* the value returned to the caller (<< >> until then)
    error,        \* the exception raised to the caller ("none" until then)
    \* ---- inclusion predicate (should_include_person, _is_adult) ----
    subject,      \* the person record the predicate is applied to
    subject_excl, \* the excluded_category_ids argument
    verdict,      \* what the predicates returned (not set until then)
    \* ---- position extractor ----
    roster,       \* the people passed to extract_volunteer_positions_from_people
    extracted,    \* the positions it returned (not done until then)
    \* ---- filter_people ----
    request,      \* the FilterRequest
    upstream,     \* the remote groups and people, and the fetch that fails, if any
    response,     \* the response of filter_people (not done until then)
    \* ---- the endpoints of api/people.py ----
    op,                \* the endpoint that is called: "filter", "groups-and-services",
                       \* "categories" or "group-categories"
    remote_categories, \* the answer of the remote people categories call
    reply,             \* the response of a list endpoint (not done until then)
    second             \* the response of a second, identical filter_people call

fetchVars == <<kind, adults_only, srv, page, all_items, requests, last, pc, result, error>>

includeVars == <<subject, subject_excl, verdict>>

extractVars == <<roster, extracted>>

filterVars == <<request, upstream, response>>

apiVars == <<op, remote_categories, reply, second>>

vars == <<fetchVars, includeVars, extractVars, filterVars, apiVars>>

notFetchVars == <<includeVars, extractVars, filterVars, apiVars>>
notIncludeVars == <<fetchVars, extractVars, filterVars, apiVars>>
notExtractVars == <<fetchVars, includeVars, filterVars, apiVars>>
notFilterVars == <<fetchVars, includeVars, extractVars, apiVars>>
notApiVars == <<fetchVars, includeVars, extractVars>>

----------------------------------------------------------------------------
(* Bounds *)

MaxItems == 250        \* largest remote collection
MaxArchived == 1       \* most archived people placed in the remote collection
MaxTags == 2           \* longest list of demographic tags of a person
MaxPeople == 2         \* longest list of people passed to the extractor
MaxDepts == 2          \* longest department list of a person
MaxFetched == 2        \* largest remote people collection seen by filter_people

----------------------------------------------------------------------------
(* Python strings *)

S_empty == << >>
S_1 == <<"1">>
S_0 == <<"0">>
S_true == <<"t", "r", "u", "e">>
S_True == <<"T", "r", "u", "e">>
S_TRUE == <<"T", "R", "U", "E">>
S_False == <<"F", "a", "l", "s", "e">>
S_adults == <<"a", "d", "u", "l", "t", "s">>
S_Adults == <<"A", "d", "u", "l", "t", "s">>
S_ADULTS == <<"A", "D", "U", "L", "T", "S">>
S_children == <<"c", "h", "i", "l", "d", "r", "e", "n">>
S_Children == <<"C", "h", "i", "l", "d", "r", "e", "n">>
S_CHILDREN == <<"C", "H", "I", "L", "D", "R", "E", "N">>
S_Youth == <<"Y", "o", "u", "t", "h">>
S_Families == <<"F", "a", "m", "i", "l", "i", "e", "s">>
S_leader == <<"l", "e", "a", "d", "e", "r">>
S_Leader == <<"L", "e", "a", "d", "e", "r">>
S_LEADER == <<"L", "E", "A", "D", "E", "R">>
S_Member == <<"M", "e", "m", "b", "e", "r">>

UpperToLower ==
    [c \in {"A", "C", "D", "E", "F", "H", "I", "L", "M", "N", "R", "S", "T", "U", "Y"} |->
        CASE c = "A" -> "a" [] c = "C" -> "c" [] c = "D" -> "d" [] c = "E" -> "e"
          [] c = "F" -> "f" [] c = "H" -> "h" [] c = "I" -> "i" [] c = "L" -> "l"
          [] c = "M" -> "m" [] c = "N" -> "n" [] c = "R" -> "r" [] c = "S" -> "s"
          [] c = "T" -> "t" [] c = "U" -> "u" [] c = "Y" -> "y"]

\* str.lower()
Lower(s) == [k \in 1..Len(s) |-> IF s[k] \in DOMAIN UpperToLower THEN UpperToLower[s[k]] ELSE s[k]]

----------------------------------------------------------------------------
(* Python scalars *)

Absent == [t |-> "absent", i |-> 0, s |-> S_empty]
PyInt(n) == [t |-> "int", i |-> n, s |-> S_empty]
PyStr(s) == [t |-> "str", i |-> 0, s |-> s]
PyBool(b) == [t |-> "bool", i |-> IF b THEN 1 ELSE 0, s |-> S_empty]

\* dict.get(key, default)
Get(v, default) == IF v.t = "absent" THEN default ELSE v

\* v == n for an int n: a bool compares as the int 0 or 1
EqInt(v, n) == v.t \in {"int", "bool"} /\ v.i = n

\* v == s for a str s
EqStr(v, s) == v.t = "str" /\ v.s = s

DigitValue ==
    [c \in {"0", "1", "2", "3", "4", "5", "6", "7", "8", "9"} |->
        CASE c = "0" -> 0 [] c = "1" -> 1 [] c = "2" -> 2 [] c = "3" -> 3 [] c = "4" -> 4
          [] c = "5" -> 5 [] c = "6" -> 6 [] c = "7" -> 7 [] c = "8" -> 8 [] c = "9" -> 9]

DigitChar == <<"0", "1", "2", "3", "4", "5", "6", "7", "8", "9">>

IsDigits(s) == s # << >> /\ \A k \in 1..Len(s) : s[k] \in DOMAIN DigitValue

RECURSIVE ParseDigits(_)
ParseDigits(s) ==
    IF s = << >> THEN 0
    ELSE 10 * ParseDigits(SubSeq(s, 1, Len(s) - 1)) + DigitValue[s[Len(s)]]

\* the decimal str of a natural number, as the server writes it
RECURSIVE DecStr(_)
DecStr(n) == IF n < 10 THEN <<DigitChar[n + 1]>> ELSE Append(DecStr(n \div 10), DigitChar[(n % 10) + 1])

\* str(v), for the natural numbers, the bools and the strs
Str(v) ==
    CASE v.t = "str" -> v.s
      [] v.t = "bool" -> IF v.i = 1 THEN S_True ELSE S_False
      [] v.t = "int" -> DecStr(v.i)
      [] OTHER -> S_empty

\* truthiness of a scalar
Truthy(v) ==
    CASE v.t = "str" -> v.s # S_empty
      [] v.t \in {"int", "bool"} -> v.i # 0
      [] OTHER -> FALSE

\* a == b between scalars
PyEq(a, b) ==
    \/ a.t \in {"int", "bool"} /\ b.t \in {"int", "bool"} /\ a.i = b.i
    \/ a.t = "str" /\ b.t = "str" /\ a.s = b.s

\* v in xs, for a list xs of scalars
In(v, xs) == \E k \in 1..Len(xs) : PyEq(v, xs[k])

----------------------------------------------------------------------------
(* One-or-many fields *)

NoField == [t |-> "absent", xs |-> << >>]
One(x) == [t |-> "one", xs |-> <<x>>]
Many(xs) == [t |-> "list", xs |-> xs]

\* x = d.get(key, []); if isinstance(x, dict): x = [x]
AsList(f) == f.xs

----------------------------------------------------------------------------
(* Inclusion predicate: api/people.py and ElvantoClient *)

\* _is_adult testing for "children" before "adults"
_is_adult_children_first(person) ==
    LET demographics == person.demographics IN
    IF demographics.t # "dict"
    THEN TRUE
    ELSE LET demo_list == AsList(demographics.demographic) IN
         IF demo_list = << >>
         THEN TRUE
         ELSE LET demo_names == [k \in 1..Len(demo_list) |->
                                    Lower(Get(demo_list[k].name, PyStr(S_empty)).s)] IN
              IF \E k \in 1..Len(demo_names) : demo_names[k] = S_children
              THEN FALSE
              ELSE TRUE

\* people.py _is_adult
_is_adult(person) ==
    LET demographics == person.demographics IN
    IF demographics.t # "dict"
    THEN TRUE
    ELSE LET demo_list == AsList(demographics.demographic) IN
         IF demo_list = << >>
         THEN TRUE
         ELSE LET demo_names == [k \in 1..Len(demo_list) |->
                                    Lower(Get(demo_list[k].name, PyStr(S_empty)).s)] IN
              IF \E k \in 1..Len(demo_names) : demo_names[k] = S_adults
              THEN TRUE
              ELSE IF \E k \in 1..Len(demo_names) : demo_names[k] = S_children
                   THEN FALSE
                   ELSE TRUE

\* should_include_person comparing str(archived) with "true" without lower()
should_include_person_case_sensitive(person, excluded_category_ids) ==
    LET excluded == IF excluded_category_ids.t = "none" THEN << >> ELSE excluded_category_ids.xs
        archived == Get(person.archived, PyInt(0))
        category_id == Get(person.category_id, PyStr(S_empty)) IN
    IF EqInt(archived, 1) \/ EqStr(archived, S_1) \/ Str(archived) = S_true
    THEN FALSE
    ELSE IF In(category_id, excluded)
         THEN FALSE
         ELSE IF ~_is_adult(person)
              THEN FALSE
              ELSE TRUE

\* people.py should_include_person; excluded_category_ids None is [t |-> "none"]
should_include_person(person, excluded_category_ids) ==
    LET excluded == IF excluded_category_ids.t = "none" THEN << >> ELSE excluded_category_ids.xs
        archived == Get(person.archived, PyInt(0))
        category_id == Get(person.category_id, PyStr(S_empty)) IN
    IF EqInt(archived, 1) \/ EqStr(archived, S_1) \/ Lower(Str(archived)) = S_true
    THEN FALSE
    ELSE IF In(category_id, excluded)
         THEN FALSE
         ELSE IF ~_is_adult(person)
              THEN FALSE
              ELSE TRUE

\* ElvantoClient._is_adult comparing the tag names without lower()
ElvantoClient_is_adult_case_sensitive(person) ==
    LET demographics == person.demographics IN
    IF demographics.t # "dict"
    THEN TRUE
    ELSE LET demo_list == AsList(demographics.demographic) IN
         IF demo_list = << >>
         THEN TRUE
         ELSE LET demo_names == [k \in 1..Len(demo_list) |->
                                    Get(demo_list[k].name, PyStr(S_empty)).s] IN
              IF \E k \in 1..Len(demo_names) : demo_names[k] = S_adults
              THEN TRUE
              ELSE IF \E k \in 1..Len(demo_names) : demo_names[k] = S_children
                   THEN FALSE
                   ELSE TRUE

\* ElvantoClient._is_adult
ElvantoClient_is_adult(person) ==
    LET demographics == person.demographics IN
    IF demographics.t # "dict"
    THEN TRUE
    ELSE LET demo_list == AsList(demographics.demographic) IN
         IF demo_list = << >>
         THEN TRUE
         ELSE LET demo_names == [k \in 1..Len(demo_list) |->
                                    Lower(Get(demo_list[k].name, PyStr(S_empty)).s)] IN
              IF \E k \in 1..Len(demo_names) : demo_names[k] = S_adults
              THEN TRUE
              ELSE IF \E k \in 1..Len(demo_names) : demo_names[k] = S_children
                   THEN FALSE
                   ELSE TRUE

\* ElvantoClient.should_include_person
ElvantoClient_should_include_person(person, excluded_category_ids) ==
    LET excluded == IF excluded_category_ids.t = "none" THEN << >> ELSE excluded_category_ids.xs
        archived == Get(person.archived, PyInt(0))
        category_id == Get(person.category_id, PyStr(S_empty)) IN
    IF EqInt(archived, 1) \/ EqStr(archived, S_1) \/ Lower(Str(archived)) = S_true
    THEN FALSE
    ELSE IF In(category_id, excluded)
         THEN FALSE
         ELSE IF ~ElvantoClient_is_adult(person)
              THEN FALSE
              ELSE TRUE

----------------------------------------------------------------------------
(* Position extractor: ElvantoClient.extract_volunteer_positions_from_people *)
(* A dict is the sequence of its entries in insertion order; the sets      *)
(* volunteers and position_ids stay sets, as list(set) fixes no order.     *)

S_Unknown == <<"U", "n", "k", "n", "o", "w", "n">>

\* the index of the entry with this key, 0 when the key is not in the dict
IndexOf(positions, key) ==
    IF \E k \in 1..Len(positions) : PyEq(positions[k].id, key)
    THEN CHOOSE k \in 1..Len(positions) : PyEq(positions[k].id, key)
    ELSE 0

\* the body of "for pos in pos_list", overwriting the department each time
AddPosition_overwrite(positions, pos, sub_name, dept_name, person_id) ==
    LET pos_id == Get(pos.id, PyStr(S_empty))
        key == sub_name
        created == IF IndexOf(positions, key) = 0
                   THEN Append(positions, [id |-> key, name |-> sub_name, department |-> dept_name,
                                           position_ids |-> {}, volunteers |-> {}])
                   ELSE positions
        k == IndexOf(created, key) IN
    [created EXCEPT ![k].department = dept_name,
                    ![k].position_ids = @ \cup {Str(pos_id)},
                    ![k].volunteers = @ \cup {person_id}]

\* the body of "for pos in pos_list", keeping one entry per department
AddPosition_per_department(positions, pos, sub_name, dept_name, person_id) ==
    LET pos_id == Get(pos.id, PyStr(S_empty))
        key == sub_name
        has == \E k \in 1..Len(positions) :
                   PyEq(positions[k].id, key) /\ positions[k].department = dept_name
        created == IF ~has
                   THEN Append(positions, [id |-> key, name |-> sub_name, department |-> dept_name,
                                           position_ids |-> {}, volunteers |-> {}])
                   ELSE positions
        k == CHOOSE k \in 1..Len(created) :
                 PyEq(created[k].id, key) /\ created[k].department = dept_name IN
    [created EXCEPT ![k].position_ids = @ \cup {Str(pos_id)},
                    ![k].volunteers = @ \cup {person_id}]

\* the body of "for pos in pos_list"
AddPosition(positions, pos, sub_name, dept_name, person_id) ==
    LET pos_id == Get(pos.id, PyStr(S_empty))
        display_name == sub_name
        key == display_name
        created == IF IndexOf(positions, key) = 0
                   THEN Append(positions, [id |-> key, name |-> display_name, department |-> dept_name,
                                           position_ids |-> {}, volunteers |-> {}])
                   ELSE positions
        k == IndexOf(created, key) IN
    [created EXCEPT ![k].position_ids = @ \cup {Str(pos_id)},
                    ![k].volunteers = @ \cup {person_id}]

\* for pos in pos_list, from index k on
RECURSIVE AddPositions(_, _, _, _, _, _)
AddPositions(positions, pos_list, k, sub_name, dept_name, person_id) ==
    IF k > Len(pos_list) THEN positions
    ELSE AddPositions(AddPosition(positions, pos_list[k], sub_name, dept_name, person_id),
                      pos_list, k + 1, sub_name, dept_name, person_id)

\* the body of "for sub in sub_list"
AddSub(positions, sub, dept_name, person_id) ==
    LET sub_name == Get(sub.name, PyStr(S_empty))
        positions_data == sub.positions IN
    IF ~Truthy(sub_name) THEN positions
    ELSE IF positions_data.t # "dict" THEN positions
    ELSE AddPositions(positions, AsList(positions_data.position), 1, sub_name, dept_name, person_id)

\* for sub in sub_list, from index k on
RECURSIVE AddSubs(_, _, _, _, _)
AddSubs(positions, sub_list, k, dept_name, person_id) ==
    IF k > Len(sub_list) THEN positions
    ELSE AddSubs(AddSub(positions, sub_list[k], dept_name, person_id),
                 sub_list, k + 1, dept_name, person_id)

\* the body of "for dept in dept_list"
AddDept(positions, dept, person_id) ==
    LET dept_name == Get(dept.name, PyStr(S_Unknown))
        sub_depts == dept.sub_departments IN
    IF sub_depts.t # "dict" THEN positions
    ELSE AddSubs(positions, AsList(sub_depts.sub_department), 1, dept_name, person_id)

\* for dept in dept_list, from index k on
RECURSIVE AddDepts(_, _, _, _)
AddDepts(positions, dept_list, k, person_id) ==
    IF k > Len(dept_list) THEN positions
    ELSE AddDepts(AddDept(positions, dept_list[k], person_id), dept_list, k + 1, person_id)

\* the body of "for person in people"
AddPerson(positions, person) ==
    LET person_id == person.id
        depts == person.departments IN
    IF ~Truthy(person_id) THEN positions
    ELSE IF depts.t # "dict" THEN positions
    ELSE AddDepts(positions, AsList(depts.department), 1, person_id)

\* for person in people, from index k on
RECURSIVE AddPeople(_, _, _)
AddPeople(positions, people, k) ==
    IF k > Len(people) THEN positions
    ELSE AddPeople(AddPerson(positions, people[k]), people, k + 1)

extract_volunteer_positions_from_people(people) == AddPeople(<< >>, people, 1)

----------------------------------------------------------------------------
(* Helpers of the API layer: api/people.py *)

S_no_category == <<"_", "_", "n", "o", "_", "c", "a", "t", "e", "g", "o", "r", "y", "_", "_">>
S_UnknownGroup == <<"U", "n", "k", "n", "o", "w", "n", " ", "G", "r", "o", "u", "p">>

\* get_leaders_from_group comparing the position with "Leader" as written
get_leaders_from_group_exact(group) ==
    LET people_data == group.people IN
    IF people_data.t # "dict" THEN << >>
    ELSE LET persons == AsList(people_data.person)
             is_leader(p) == Get(p.position, PyStr(S_empty)).s = S_Leader IN
         SelectSeq(persons, is_leader)

\* get_leaders_from_group
get_leaders_from_group(group) ==
    LET people_data == group.people IN
    IF people_data.t # "dict" THEN << >>
    ELSE LET persons == AsList(people_data.person)
             is_leader(p) == Lower(Get(p.position, PyStr(S_empty)).s) = S_leader IN
         SelectSeq(persons, is_leader)

\* for pos in pos_list, from index k on: one entry per position
RECURSIVE PersonPositionsOfPositions(_, _, _, _, _)
PersonPositionsOfPositions(positions, pos_list, k, sub_name, dept_name) ==
    IF k > Len(pos_list) THEN positions
    ELSE PersonPositionsOfPositions(
             Append(positions, [id |-> sub_name, name |-> sub_name, department |-> dept_name]),
             pos_list, k + 1, sub_name, dept_name)

\* PersonPositionsOfSubs keeping the sub-departments without a name
RECURSIVE PersonPositionsOfSubs_unnamed(_, _, _, _)
PersonPositionsOfSubs_unnamed(positions, sub_list, k, dept_name) ==
    IF k > Len(sub_list) THEN positions
    ELSE LET sub == sub_list[k]
             sub_name == Get(sub.name, PyStr(S_empty))
             positions_data == sub.positions
             added == IF positions_data.t # "dict" THEN positions
                      ELSE PersonPositionsOfPositions(positions, AsList(positions_data.position), 1,
                                                      sub_name, dept_name) IN
         PersonPositionsOfSubs_unnamed(added, sub_list, k + 1, dept_name)

\* for sub in sub_list, from index k on
RECURSIVE PersonPositionsOfSubs(_, _, _, _)
PersonPositionsOfSubs(positions, sub_list, k, dept_name) ==
    IF k > Len(sub_list) THEN positions
    ELSE LET sub == sub_list[k]
             sub_name == Get(sub.name, PyStr(S_empty))
             positions_data == sub.positions
             added == IF ~Truthy(sub_name) THEN positions
                      ELSE IF positions_data.t # "dict" THEN positions
                      ELSE PersonPositionsOfPositions(positions, AsList(positions_data.position), 1,
                                                      sub_name, dept_name) IN
         PersonPositionsOfSubs(added, sub_list, k + 1, dept_name)

\* for dept in dept_list, from index k on
RECURSIVE PersonPositionsOfDepts(_, _, _)
PersonPositionsOfDepts(positions, dept_list, k) ==
    IF k > Len(dept_list) THEN positions
    ELSE LET dept == dept_list[k]
             dept_name == Get(dept.name, PyStr(S_Unknown))
             sub_depts == dept.sub_departments
             added == IF sub_depts.t # "dict" THEN positions
                      ELSE PersonPositionsOfSubs(positions, AsList(sub_depts.sub_department), 1, dept_name) IN
         PersonPositionsOfDepts(added, dept_list, k + 1)

\* get_person_positions_from_departments
get_person_positions_from_departments(person) ==
    LET depts == person.departments IN
    IF depts.t # "dict" THEN << >>
    ELSE PersonPositionsOfDepts(<< >>, AsList(depts.department), 1)

\* a "categories" value is [t, category]: t is "absent" (None or missing),
\* "empty" ({}, [] or ""), "str", "dict" (category is its "category" field)
\* or "list" (category is the list itself)
CategoriesFalsy(categories) == categories.t \in {"absent", "empty"}

\* cat_list as group_has_excluded_category and the selection list extract it
CatListOf(categories) ==
    IF categories.t \in {"dict", "list"} THEN AsList(categories.category) ELSE << >>

\* group_has_excluded_category without the test for an empty category list
group_has_excluded_category_no_empty_list(group, excluded_category_ids) ==
    LET categories == group.categories
        no_category == PyStr(S_no_category) IN
    IF excluded_category_ids = << >> THEN FALSE
    ELSE IF In(no_category, excluded_category_ids) /\ CategoriesFalsy(categories) THEN TRUE
    ELSE IF CategoriesFalsy(categories) THEN FALSE
    ELSE \E k \in 1..Len(CatListOf(categories)) :
            LET cat_id == CatListOf(categories)[k].id IN
            Truthy(cat_id) /\ In(cat_id, excluded_category_ids)

\* group_has_excluded_category
group_has_excluded_category(group, excluded_category_ids) ==
    LET categories == group.categories
        no_category == PyStr(S_no_category) IN
    IF excluded_category_ids = << >> THEN FALSE
    ELSE IF In(no_category, excluded_category_ids) /\ CategoriesFalsy(categories) THEN TRUE
    ELSE IF In(no_category, excluded_category_ids) /\ categories.t = "dict"
            /\ AsList(categories.category) = << >> THEN TRUE
    ELSE IF CategoriesFalsy(categories) THEN FALSE
    ELSE \E k \in 1..Len(CatListOf(categories)) :
            LET cat_id == CatListOf(categories)[k].id IN
            Truthy(cat_id) /\ In(cat_id, excluded_category_ids)

----------------------------------------------------------------------------
(* ElvantoClient._to_int *)

\* _to_int(value, default=0): the callers never pass another default
_to_int(value) ==
    CASE value.t \in {"int", "bool"} -> value.i
      [] value.t = "str" /\ IsDigits(value.s) -> ParseDigits(value.s)
      [] OTHER -> 0

----------------------------------------------------------------------------
(* The remote list endpoint *)

page_size == 100

S_junk == <<"n", "/", "a">>

\* how the server writes total, and how it writes per_page and on_this_page
ReportModes == {"int", "str", "absent", "junk"}
PageReportModes == {"int", "absent", "junk"}
\* the same for a server that may report wrong numbers: 0 or too much
AnyReportModes == {"int", "absent", "junk", "zero", "over"}

\* how the server writes the number n in a pagination field
Report(mode, n) ==
    CASE mode = "int" -> PyInt(n)
      [] mode = "str" -> PyStr(DecStr(n))
      [] mode = "junk" -> PyStr(S_junk)
      [] mode = "zero" -> PyInt(0)
      [] mode = "over" -> PyInt(n + page_size)
      [] OTHER -> Absent

Min(a, b) == IF a < b THEN a ELSE b

\* the sequence 1, 2, ..., n
UpTo(n) == [k \in 1..n |-> k]

\* the indices of the items on page p: the server holds items 1..n
PageItems(n, p) == [k \in 1..(Min(p * page_size, n) - Min((p - 1) * page_size, n)) |-> (p - 1) * page_size + k]

\* the shapes in which the server may send a page of c items
PageShapes(c) ==
    IF c = 0 THEN {"nodata", "nokey", "emptylist"}
    ELSE IF c = 1 THEN {"one", "list"}
    ELSE {"list"}

\* the record at index i of the remote collection, for the people fetch
PersonAt(s, i) ==
    [id |-> PyInt(i),
     archived |-> IF i \in s.archived THEN PyStr(S_1) ELSE PyInt(0),
     category_id |-> Absent,
     demographics |-> [t |-> "absent", demographic |-> NoField]]

\* the responses of a working server to a request for page p
Responses(s, p) ==
    LET items == PageItems(s.n, p) IN
    {[shape |-> sh,
      items |-> items,
      record |-> [i \in 1..s.n |-> PersonAt(s, i)],
      total |-> Report(s.total, s.n),
      per_page |-> Report(s.per_page, page_size),
      on_this_page |-> Report(s.on_this_page, Len(items))] : sh \in PageShapes(Len(items))}

NoExcluded == [t |-> "none", xs |-> << >>]

----------------------------------------------------------------------------
(* The body of the while loop of each paginated fetch: from the response   *)
(* and the accumulated items to the new accumulated items and whether the  *)
(* loop breaks.                                                            *)

\* get_all_groups_with_people comparing len(all_groups) > total
get_all_groups_with_people_strict(resp, all_groups) ==
    IF resp.shape = "nodata"
    THEN [stop |-> TRUE, all |-> all_groups]
    ELSE IF resp.shape \in {"nokey", "emptylist"}
         THEN [stop |-> TRUE, all |-> all_groups]
         ELSE LET groups == resp.items
                  all2 == all_groups \o groups
                  total == _to_int(Get(resp.total, PyInt(0)))
                  per_page == _to_int(Get(resp.per_page, PyInt(page_size)))
                  on_this_page == _to_int(Get(resp.on_this_page, PyInt(Len(groups)))) IN
              [stop |-> on_this_page < per_page \/ Len(all2) > total, all |-> all2]

\* get_all_groups_with_people
get_all_groups_with_people(resp, all_groups) ==
    IF resp.shape = "nodata"
    THEN [stop |-> TRUE, all |-> all_groups]
    ELSE IF resp.shape \in {"nokey", "emptylist"}
         THEN [stop |-> TRUE, all |-> all_groups]
         ELSE LET groups == resp.items
                  all2 == all_groups \o groups
                  total == _to_int(Get(resp.total, PyInt(0)))
                  per_page == _to_int(Get(resp.per_page, PyInt(page_size)))
                  on_this_page == _to_int(Get(resp.on_this_page, PyInt(Len(groups)))) IN
              [stop |-> on_this_page < per_page \/ Len(all2) >= total, all |-> all2]

\* get_all_groups_with_categories without the two breaks on an empty page
get_all_groups_with_categories_no_empty_break(resp, all_groups) ==
    LET groups == IF resp.shape \in {"nodata", "nokey", "emptylist"} THEN << >> ELSE resp.items
        all2 == all_groups \o groups
        total == _to_int(Get(resp.total, PyInt(0)))
        per_page == _to_int(Get(resp.per_page, PyInt(page_size)))
        on_this_page == _to_int(Get(resp.on_this_page, PyInt(Len(groups)))) IN
    [stop |-> on_this_page < per_page \/ Len(all2) >= total, all |-> all2]

\* get_all_groups_with_categories
get_all_groups_with_categories(resp, all_groups) ==
    IF resp.shape = "nodata"
    THEN [stop |-> TRUE, all |-> all_groups]
    ELSE IF resp.shape \in {"nokey", "emptylist"}
         THEN [stop |-> TRUE, all |-> all_groups]
         ELSE LET groups == resp.items
                  all2 == all_groups \o groups
                  total == _to_int(Get(resp.total, PyInt(0)))
                  per_page == _to_int(Get(resp.per_page, PyInt(page_size)))
                  on_this_page == _to_int(Get(resp.on_this_page, PyInt(Len(groups)))) IN
              [stop |-> on_this_page < per_page \/ Len(all2) >= total, all |-> all2]

\* get_all_people_with_departments; resp.record[i] is the person record of item i
get_all_people_with_departments(resp, all_people, adults, excluded_category_ids) ==
    IF resp.shape = "nodata"
    THEN [stop |-> TRUE, all |-> all_people]
    ELSE IF resp.shape \in {"nokey", "emptylist"}
         THEN [stop |-> TRUE, all |-> all_people]
         ELSE LET keep(i) == ElvantoClient_should_include_person(resp.record[i], excluded_category_ids)
                  people == IF adults THEN SelectSeq(resp.items, keep) ELSE resp.items
                  all2 == all_people \o people
                  total == _to_int(Get(resp.total, PyInt(0)))
                  per_page == _to_int(Get(resp.per_page, PyInt(page_size)))
                  on_this_page == _to_int(Get(resp.on_this_page, PyInt(Len(people)))) IN
              [stop |-> on_this_page < per_page \/ Len(all2) >= total, all |-> all2]

----------------------------------------------------------------------------
(* filter_people: api/people.py.  filtered_people is the sequence of its   *)
(* records in insertion order.                                             *)

\* the answer of an accurate server to the request for page 1 of a
\* collection that fits in one page
SinglePage(records) ==
    [shape |-> IF Len(records) = 0 THEN "emptylist" ELSE "list",
     items |-> UpTo(Len(records)),
     record |-> records,
     total |-> PyInt(Len(records)),
     per_page |-> PyInt(page_size),
     on_this_page |-> PyInt(Len(records))]

\* client.get_all_groups_with_people() on such a collection: the groups
\* carry their people and no categories
FetchGroupsWithPeople(groups) ==
    LET r == get_all_groups_with_people(SinglePage(groups), << >>) IN
    [k \in 1..Len(r.all) |->
        [id |-> groups[r.all[k]].id, name |-> groups[r.all[k]].name,
         people |-> groups[r.all[k]].people,
         categories |-> [t |-> "absent", category |-> NoField]]]

\* client.get_all_groups_with_categories() on such a collection: the groups
\* the server lists, with their categories
FetchGroupsWithCategories(groups) ==
    LET is_listed(g) == g.listed
        listed == SelectSeq(groups, is_listed)
        r == get_all_groups_with_categories(SinglePage(listed), << >>) IN
    [k \in 1..Len(r.all) |->
        [id |-> listed[r.all[k]].id, name |-> listed[r.all[k]].name,
         categories |-> listed[r.all[k]].categories]]

\* client.get_all_people_with_departments(adults_only=True, excluded_category_ids)
FetchPeopleWithDepartments(people, excluded_category_ids) ==
    LET r == get_all_people_with_departments(SinglePage(people), << >>, TRUE,
                                             Many(excluded_category_ids)) IN
    [k \in 1..Len(r.all) |-> people[r.all[k]]]

\* categories_by_group_id[group_id], the value stored last under the key
CategoriesByGroupId(groups_with_categories, group_id) ==
    LET hits == {k \in 1..Len(groups_with_categories) :
                    /\ Truthy(groups_with_categories[k].id)
                    /\ PyEq(groups_with_categories[k].id, group_id)} IN
    IF hits = {} THEN [found |-> FALSE, categories |-> [t |-> "absent", category |-> NoField]]
    ELSE [found |-> TRUE,
          categories |-> groups_with_categories[CHOOSE k \in hits : \A j \in hits : j <= k].categories]

\* the merge of the categories into groups_with_people
MergeCategories(groups_with_people, groups_with_categories) ==
    [k \in 1..Len(groups_with_people) |->
        LET group == groups_with_people[k]
            hit == CategoriesByGroupId(groups_with_categories, group.id) IN
        IF hit.found THEN [group EXCEPT !.categories = hit.categories] ELSE group]

\* the index of the record of person_id in filtered_people, 0 when there is none
RecordOf(filtered_people, person_id) ==
    IF \E k \in 1..Len(filtered_people) : PyEq(filtered_people[k].id, person_id)
    THEN CHOOSE k \in 1..Len(filtered_people) : PyEq(filtered_people[k].id, person_id)
    ELSE 0

\* EnsureRecord creating a record for every match
EnsureRecord_always_new(filtered_people, person_id) ==
    Append(filtered_people, [id |-> person_id, groups |-> << >>, service_positions |-> << >>])

\* if person_id not in filtered_people: filtered_people[person_id] = {...}
EnsureRecord(filtered_people, person_id) ==
    IF RecordOf(filtered_people, person_id) = 0
    THEN Append(filtered_people, [id |-> person_id, groups |-> << >>, service_positions |-> << >>])
    ELSE filtered_people

\* the body of "for person in leaders"
AddLeader(filtered_people, person, group_id, group_name) ==
    LET person_id == person.id IN
    IF ~Truthy(person_id) THEN filtered_people
    ELSE LET ensured == EnsureRecord(filtered_people, person_id)
             k == RecordOf(ensured, person_id)
             existing == \E j \in 1..Len(ensured[k].groups) : PyEq(ensured[k].groups[j].id, group_id) IN
         IF existing THEN ensured
         ELSE [ensured EXCEPT ![k].groups =
                  Append(@, [id |-> group_id, name |-> group_name, role |-> S_Leader])]

\* for person in leaders, from index k on
RECURSIVE AddLeaders(_, _, _, _, _)
AddLeaders(filtered_people, leaders, k, group_id, group_name) ==
    IF k > Len(leaders) THEN filtered_people
    ELSE AddLeaders(AddLeader(filtered_people, leaders[k], group_id, group_name),
                    leaders, k + 1, group_id, group_name)

\* the body of "for group in groups"
ProcessGroup(filtered_people, group, group_ids, excluded_group_category_ids) ==
    LET group_id == PyStr(Str(Get(group.id, PyStr(S_empty)))) IN
    IF ~In(group_id, group_ids) THEN filtered_people
    ELSE IF group_has_excluded_category(group, excluded_group_category_ids) THEN filtered_people
    ELSE AddLeaders(filtered_people, get_leaders_from_group(group), 1, group_id,
                    Get(group.name, PyStr(S_UnknownGroup)))

\* for group in groups, from index k on
RECURSIVE ProcessGroups(_, _, _, _, _)
ProcessGroups(filtered_people, groups, k, group_ids, excluded_group_category_ids) ==
    IF k > Len(groups) THEN filtered_people
    ELSE ProcessGroups(ProcessGroup(filtered_people, groups[k], group_ids, excluded_group_category_ids),
                       groups, k + 1, group_ids, excluded_group_category_ids)

\* AddMatched appending every matched position
RECURSIVE AddMatched_no_dedupe(_, _, _, _)
AddMatched_no_dedupe(filtered_people, r, matched_positions, k) ==
    IF k > Len(matched_positions) THEN filtered_people
    ELSE LET pos == matched_positions[k]
             added == [filtered_people EXCEPT ![r].service_positions =
                          Append(@, [id |-> pos.id, name |-> pos.name, department |-> pos.department])] IN
         AddMatched_no_dedupe(added, r, matched_positions, k + 1)

\* for pos in matched_positions, from index k on, into the record at index r
RECURSIVE AddMatched(_, _, _, _)
AddMatched(filtered_people, r, matched_positions, k) ==
    IF k > Len(matched_positions) THEN filtered_people
    ELSE LET pos == matched_positions[k]
             existing == \E j \in 1..Len(filtered_people[r].service_positions) :
                             PyEq(filtered_people[r].service_positions[j].id, pos.id)
             added == IF existing THEN filtered_people
                      ELSE [filtered_people EXCEPT ![r].service_positions =
                               Append(@, [id |-> pos.id, name |-> pos.name, department |-> pos.department])] IN
         AddMatched(added, r, matched_positions, k + 1)

\* the body of "for person in people"
ProcessPerson(filtered_people, person, service_position_ids) ==
    LET person_id == person.id IN
    IF ~Truthy(person_id) THEN filtered_people
    ELSE LET person_positions == get_person_positions_from_departments(person)
             is_matched(pos) == In(pos.id, service_position_ids)
             matched_positions == SelectSeq(person_positions, is_matched) IN
         IF matched_positions = << >> THEN filtered_people
         ELSE LET ensured == EnsureRecord(filtered_people, person_id) IN
              AddMatched(ensured, RecordOf(ensured, person_id), matched_positions, 1)

\* for person in people, from index k on
RECURSIVE ProcessPeople(_, _, _, _)
ProcessPeople(filtered_people, people, k, service_position_ids) ==
    IF k > Len(people) THEN filtered_people
    ELSE ProcessPeople(ProcessPerson(filtered_people, people[k], service_position_ids),
                       people, k + 1, service_position_ids)

\* "if request.group_ids:": a failure of either group fetch is caught and
\* leaves filtered_people as it was
GroupLeaderMode(filtered_people, req, up) ==
    IF req.group_ids = << >> THEN filtered_people
    ELSE IF up.failing \in {"groups_people", "groups_categories"} THEN filtered_people
    ELSE LET groups_with_people == FetchGroupsWithPeople(up.groups)
             groups_with_categories == FetchGroupsWithCategories(up.groups)
             groups == MergeCategories(groups_with_people, groups_with_categories) IN
         ProcessGroups(filtered_people, groups, 1, req.group_ids, req.excluded_group_category_ids)

\* "if request.service_position_ids:": a failure of the people fetch is
\* caught and leaves filtered_people as it was
ServicePositionMode(filtered_people, req, up) ==
    IF req.service_position_ids = << >> THEN filtered_people
    ELSE IF up.failing = "people" THEN filtered_people
    ELSE ProcessPeople(filtered_people,
                       FetchPeopleWithDepartments(up.people, req.excluded_category_ids),
                       1, req.service_position_ids)

\* filter_people
filter_people(req, up) ==
    LET filtered_people == ServicePositionMode(GroupLeaderMode(<< >>, req, up), req, up) IN
    [done |-> TRUE, people |-> filtered_people, count |-> Len(filtered_people)]

----------------------------------------------------------------------------
(* The list operations of api/people.py: the combined selection list, the  *)
(* people categories and the group categories.                             *)

S_UnnamedGroup == <<"U", "n", "n", "a", "m", "e", "d", " ", "G", "r", "o", "u", "p">>
S_NoCategory == <<"N", "o", " ", "C", "a", "t", "e", "g", "o", "r", "y">>

\* client.get_all_people_with_departments(adults_only=False)
FetchAllPeopleWithDepartments(people) ==
    LET r == get_all_people_with_departments(SinglePage(people), << >>, FALSE, NoExcluded) IN
    [k \in 1..Len(r.all) |-> people[r.all[k]]]

\* a merge that pairs the two collections by position
MergeCategoriesInPlace_by_position(groups_with_people, groups_with_categories) ==
    [k \in 1..Len(groups_with_people) |->
        IF k <= Len(groups_with_categories)
        THEN [groups_with_people[k] EXCEPT !.categories = groups_with_categories[k].categories]
        ELSE groups_with_people[k]]

\* the merge of the selection list: group["categories"] is assigned in place
MergeCategoriesInPlace(groups_with_people, groups_with_categories) ==
    [k \in 1..Len(groups_with_people) |->
        LET group == groups_with_people[k]
            hit == CategoriesByGroupId(groups_with_categories, group.id) IN
        IF hit.found THEN [group EXCEPT !.categories = hit.categories] ELSE group]

\* the ids appended to category_ids, from index k of cat_list on
RECURSIVE CategoryIdsFrom(_, _)
CategoryIdsFrom(cat_list, k) ==
    IF k > Len(cat_list) THEN << >>
    ELSE IF Truthy(cat_list[k].id) THEN <<cat_list[k].id>> \o CategoryIdsFrom(cat_list, k + 1)
    ELSE CategoryIdsFrom(cat_list, k + 1)

\* category_ids of a group in the selection list
CategoryIdsOf(group) ==
    LET categories == group.categories
        category_ids == IF CategoriesFalsy(categories) THEN << >>
                        ELSE CategoryIdsFrom(CatListOf(categories), 1) IN
    IF category_ids = << >> THEN <<PyStr(S_no_category)>> ELSE category_ids

\* group_list: one item per group with a non-empty id
RECURSIVE GroupList(_, _)
GroupList(groups, k) ==
    IF k > Len(groups) THEN << >>
    ELSE LET group == groups[k] IN
         IF ~Truthy(group.id) THEN GroupList(groups, k + 1)
         ELSE <<[id |-> PyStr(Str(Get(group.id, PyStr(S_empty)))),
                 name |-> Get(group.name, PyStr(S_UnnamedGroup)),
                 type |-> "group",
                 member_count |-> Len(get_leaders_from_group(group)),
                 category_ids |-> CategoryIdsOf(group)]>> \o GroupList(groups, k + 1)

\* position_list: one item per extracted position
PositionList(positions) ==
    [k \in 1..Len(positions) |->
        [id |-> PyStr(Str(positions[k].id)),
         name |-> positions[k].name,
         department |-> positions[k].department,
         type |-> "service",
         member_count |-> Cardinality(positions[k].volunteers)]]

\* the first try block: a failure of either group fetch leaves groups = []
SelectionGroups(up) ==
    IF up.failing \in {"groups_people", "groups_categories"} THEN << >>
    ELSE MergeCategoriesInPlace(FetchGroupsWithPeople(up.groups), FetchGroupsWithCategories(up.groups))

\* one try block around both fetches: any failure leaves positions = {}
SelectionPositions_single_try(up) ==
    IF up.failing # "none" THEN << >>
    ELSE extract_volunteer_positions_from_people(FetchAllPeopleWithDepartments(up.people))

\* the second try block: a failure of the people fetch leaves positions = {}
SelectionPositions(up) ==
    IF up.failing = "people" THEN << >>
    ELSE extract_volunteer_positions_from_people(FetchAllPeopleWithDepartments(up.people))

\* _get_groups_and_service_positions_impl
get_groups_and_service_positions(up) ==
    LET group_list == GroupList(SelectionGroups(up), 1)
        position_list == PositionList(SelectionPositions(up)) IN
    [status |-> "ok",
     group_items |-> group_list,
     position_items |-> position_list,
     count |-> Len(group_list) + Len(position_list),
     groups_count |-> Len(group_list),
     positions_count |-> Len(position_list)]

\* ElvantoClient.get_all_categories on the answer rc of the remote call:
\* every exception, a failed call and a "categories" value without .get
\* included, is caught and gives []
get_all_categories(rc) ==
    IF rc.failing THEN << >>
    ELSE IF rc.categories.t = "dict" THEN AsList(rc.categories.category)
    ELSE << >>

\* get_categories
get_categories(rc) ==
    LET categories == get_all_categories(rc) IN
    [status |-> "ok",
     categories |-> [k \in 1..Len(categories) |->
                        [id |-> Get(categories[k].id, PyStr(S_empty)),
                         name |-> Get(categories[k].name, PyStr(S_Unknown))]]]

\* the characters of the strings in use, in code point order
Alphabet ==
    <<" ", "/", "0", "1", "2", "3", "4", "5", "6", "7", "8", "9",
      "A", "B", "C", "D", "E", "F", "G", "H", "I", "J", "K", "L", "M",
      "N", "O", "P", "Q", "R", "S", "T", "U", "V", "W", "X", "Y", "Z", "_",
      "a", "b", "c", "d", "e", "f", "g", "h", "i", "j", "k", "l", "m",
      "n", "o", "p", "q", "r", "s", "t", "u", "v", "w", "x", "y", "z">>

Ord(c) == CHOOSE i \in 1..Len(Alphabet) : Alphabet[i] = c

\* a < b for two str values
RECURSIVE StrLess(_, _)
StrLess(a, b) ==
    IF b = << >> THEN FALSE
    ELSE IF a = << >> THEN TRUE
    ELSE IF Ord(Head(a)) # Ord(Head(b)) THEN Ord(Head(a)) < Ord(Head(b))
    ELSE StrLess(Tail(a), Tail(b))

\* categories_dict[cat_id] = cat_name: a new key goes last, a known key
\* keeps its place
SetCategory(categories_dict, cat_id, cat_name) ==
    IF \E k \in 1..Len(categories_dict) : PyEq(categories_dict[k].id, cat_id)
    THEN [k \in 1..Len(categories_dict) |->
             IF PyEq(categories_dict[k].id, cat_id)
             THEN [id |-> cat_id, name |-> cat_name] ELSE categories_dict[k]]
    ELSE Append(categories_dict, [id |-> cat_id, name |-> cat_name])

\* for cat in cat_list, from index k on
RECURSIVE CollectCategories(_, _, _)
CollectCategories(categories_dict, cat_list, k) ==
    IF k > Len(cat_list) THEN categories_dict
    ELSE LET cat_id == cat_list[k].id
             cat_name == cat_list[k].name IN
         CollectCategories(IF Truthy(cat_id) /\ Truthy(cat_name)
                           THEN SetCategory(categories_dict, cat_id, cat_name)
                           ELSE categories_dict,
                           cat_list, k + 1)

\* for group in groups, from index k on: acc is [categories_dict,
\* groups_without_category]
RECURSIVE ScanGroups(_, _, _)
ScanGroups(acc, groups, k) ==
    IF k > Len(groups) THEN acc
    ELSE LET categories == groups[k].categories IN
         ScanGroups(
             IF CategoriesFalsy(categories)
             THEN [acc EXCEPT !.groups_without_category = @ + 1]
             ELSE IF categories.t = "str" THEN acc
             ELSE [acc EXCEPT !.categories_dict = CollectCategories(@, CatListOf(categories), 1)],
             groups, k + 1)

\* sorted(..., key=name): a stable insertion of entry e into the sorted xs
RECURSIVE InsertSorted(_, _)
InsertSorted(xs, e) ==
    IF xs = << >> THEN <<e>>
    ELSE IF StrLess(e.name.s, xs[Len(xs)].name.s)
         THEN Append(InsertSorted(SubSeq(xs, 1, Len(xs) - 1), e), xs[Len(xs)])
         ELSE Append(xs, e)

RECURSIVE SortedByName(_, _)
SortedByName(xs, k) ==
    IF k = 0 THEN << >> ELSE InsertSorted(SortedByName(xs, k - 1), xs[k])

\* get_group_categories: a failure of the group fetch is answered with an
\* HTTP 500 error
get_group_categories(up) ==
    IF up.failing = "groups_categories"
    THEN [status |-> "error", categories |-> << >>]
    ELSE LET groups == FetchGroupsWithCategories(up.groups)
             acc == ScanGroups([categories_dict |-> << >>, groups_without_category |-> 0], groups, 1)
             categories_list == SortedByName(acc.categories_dict, Len(acc.categories_dict)) IN
         [status |-> "ok",
          categories |-> IF acc.groups_without_category > 0
                         THEN <<[id |-> PyStr(S_no_category), name |-> PyStr(S_NoCategory)]>>
                              \o categories_list
                         ELSE categories_list]

----------------------------------------------------------------------------
(* The paginated fetch as a state machine: one step per remote request.    *)

FetchKinds == {"groups_people", "groups_categories", "people"}

ArchivedSlots == {1, page_size + 1, 2 * page_size}

NotReturned == [returned |-> FALSE, items |-> << >>]

NoResponse == [page |-> 0, shape |-> "none", count |-> 0]

FetchInit ==
    /\ kind \in FetchKinds
    /\ adults_only \in IF kind = "people" THEN BOOLEAN ELSE {FALSE}
    /\ srv \in {s \in [n : 0..MaxItems,
                       archived : SUBSET ArchivedSlots,
                       total : ReportModes,
                       per_page : PageReportModes,
                       on_this_page : PageReportModes] :
                    /\ Cardinality(s.archived) <= MaxArchived
                    /\ \A i \in s.archived : i <= s.n
                    /\ (s.archived # {} => adults_only)}
    /\ page = 1
    /\ all_items = << >>
    /\ requests = << >>
    /\ last = NoResponse
    /\ pc = "fetching"
    /\ result = NotReturned
    /\ error = "none"

\* the sizes of the remote collection around the page boundaries
BoundarySizes == {n \in 0..MaxItems : n % page_size \in {0, 1, page_size - 1}}

\* a fetch against a server that may report any total, per_page and
\* on_this_page
AnyServerInit ==
    /\ kind \in FetchKinds
    /\ adults_only \in IF kind = "people" THEN BOOLEAN ELSE {FALSE}
    /\ srv \in {s \in [n : BoundarySizes,
                       archived : SUBSET ArchivedSlots,
                       total : AnyReportModes,
                       per_page : AnyReportModes,
                       on_this_page : AnyReportModes] :
                    /\ Cardinality(s.archived) <= MaxArchived
                    /\ \A i \in s.archived : i <= s.n
                    /\ (s.archived # {} => adults_only)}
    /\ page = 1
    /\ all_items = << >>
    /\ requests = << >>
    /\ last = NoResponse
    /\ pc = "fetching"
    /\ result = NotReturned
    /\ error = "none"

\* no fetch is running
FetchIdle ==
    /\ kind = "none"
    /\ adults_only = FALSE
    /\ srv = [n |-> 0, archived |-> {}, total |-> "int", per_page |-> "int", on_this_page |-> "int"]
    /\ page = 1
    /\ all_items = << >>
    /\ requests = << >>
    /\ last = NoResponse
    /\ pc = "idle"
    /\ result = NotReturned
    /\ error = "none"

\* one pass through the loop body of the running fetch
LoopBody(resp) ==
    CASE kind = "groups_people" -> get_all_groups_with_people(resp, all_items)
      [] kind = "groups_categories" -> get_all_groups_with_categories(resp, all_items)
      [] OTHER -> get_all_people_with_departments(resp, all_items, adults_only, NoExcluded)

\* the request is answered and the loop goes on to the next page
FetchNextPage ==
    /\ pc = "fetching"
    /\ \E resp \in Responses(srv, page) :
        LET r == LoopBody(resp) IN
        /\ ~r.stop
        /\ requests' = Append(requests, page)
        /\ last' = [page |-> page, shape |-> resp.shape, count |-> Len(resp.items)]
        /\ all_items' = r.all
        /\ page' = page + 1
    /\ UNCHANGED <<kind, adults_only, srv, pc, result, error>>
    /\ UNCHANGED notFetchVars

\* the request is answered, the loop breaks and the fetch returns
FetchReturn ==
    /\ pc = "fetching"
    /\ \E resp \in Responses(srv, page) :
        LET r == LoopBody(resp) IN
        /\ r.stop
        /\ requests' = Append(requests, page)
        /\ last' = [page |-> page, shape |-> resp.shape, count |-> Len(resp.items)]
        /\ all_items' = r.all
        /\ result' = [returned |-> TRUE, items |-> r.all]
        /\ pc' = "returned"
    /\ UNCHANGED <<kind, adults_only, srv, page, error>>
    /\ UNCHANGED notFetchVars

\* a fetch that catches the failure and returns what it has accumulated
FetchRaise_partial ==
    /\ pc = "fetching"
    /\ \E cause \in {"Request failed", "Invalid JSON response", "Elvanto API error"} :
        error' = cause
    /\ requests' = Append(requests, page)
    /\ result' = [returned |-> TRUE, items |-> all_items]
    /\ pc' = "raised"
    /\ UNCHANGED <<kind, adults_only, srv, page, all_items, last>>
    /\ UNCHANGED notFetchVars

\* _make_request raises: transport failure, invalid JSON or status not "ok"
FetchRaise ==
    /\ pc = "fetching"
    /\ \E cause \in {"Request failed", "Invalid JSON response", "Elvanto API error"} :
        error' = cause
    /\ requests' = Append(requests, page)
    /\ pc' = "raised"
    /\ UNCHANGED <<kind, adults_only, srv, page, all_items, last, result>>
    /\ UNCHANGED notFetchVars


----------------------------------------------------------------------------
(* The inclusion predicate applied to one person record *)

S_c1 == <<"c", "1">>
S_c2 == <<"c", "2">>

ArchivedValues ==
    {Absent, PyInt(0), PyInt(1), PyStr(S_0), PyStr(S_1), PyBool(TRUE), PyBool(FALSE),
     PyStr(S_true), PyStr(S_True), PyStr(S_TRUE), PyStr(S_False)}

CategoryValues == {Absent, PyStr(S_c1), PyStr(S_c2)}

ExcludedValues ==
    {[t |-> "none", xs |-> << >>]} \cup
    {[t |-> "list", xs |-> xs] :
        xs \in {<< >>, <<PyStr(S_c1)>>, <<PyStr(S_c2), PyStr(S_c1)>>, <<PyStr(S_empty)>>}}

TagValues ==
    {[name |-> n] : n \in {Absent, PyStr(S_Adults), PyStr(S_adults), PyStr(S_Children),
                           PyStr(S_CHILDREN), PyStr(S_Youth), PyStr(S_Families)}}

\* the sequences over S of length at most n
SeqsUpTo(S, n) == UNION {[1..k -> S] : k \in 0..n}

DemographicsValues ==
    {[t |-> t, demographic |-> NoField] : t \in {"absent", "empty", "nondict", "dict"}} \cup
    {[t |-> "dict", demographic |-> One(tag)] : tag \in TagValues} \cup
    {[t |-> "dict", demographic |-> Many(tags)] : tags \in SeqsUpTo(TagValues, MaxTags)}

Unset == [set |-> FALSE, api |-> FALSE, client |-> FALSE, api_adult |-> FALSE, client_adult |-> FALSE]

IncludeInit ==
    /\ subject \in [id : {PyStr(<<"p">>)},
                   archived : ArchivedValues,
                   category_id : CategoryValues,
                   demographics : DemographicsValues]
    /\ subject_excl \in ExcludedValues
    /\ verdict = Unset

\* no predicate call is modelled
IncludeIdle ==
    /\ subject = PersonAt([archived |-> {}], 0)
    /\ subject_excl = NoExcluded
    /\ verdict = Unset

\* both implementations of the predicate are called on the person
ApplyPredicate ==
    /\ ~verdict.set
    /\ verdict' = [set |-> TRUE,
                   api |-> should_include_person(subject, subject_excl),
                   client |-> ElvantoClient_should_include_person(subject, subject_excl),
                   api_adult |-> _is_adult(subject),
                   client_adult |-> ElvantoClient_is_adult(subject)]
    /\ UNCHANGED <<subject, subject_excl>>
    /\ UNCHANGED notIncludeVars

----------------------------------------------------------------------------
(* The extractor applied to a list of people *)

S_P1 == <<"P", "1">>
S_P2 == <<"P", "2">>
S_a == <<"a">>
S_b == <<"b">>
S_Ushers == <<"U", "s", "h", "e", "r", "s">>
S_Greeters == <<"G", "r", "e", "e", "t", "e", "r", "s">>
S_Worship == <<"W", "o", "r", "s", "h", "i", "p">>
S_Welcome == <<"W", "e", "l", "c", "o", "m", "e">>

PosA == [id |-> PyStr(S_a)]
PosB == [id |-> PyStr(S_b)]

\* the "positions" field of a sub-department
Positions(t, f) == [t |-> t, position |-> f]
\* the "sub_departments" field of a department
SubDepartments(t, f) == [t |-> t, sub_department |-> f]
\* the "departments" field of a person
Departments(t, f) == [t |-> t, department |-> f]

SubDept(name, positions) == [name |-> name, positions |-> positions]
Dept(name, subs) == [name |-> name, sub_departments |-> subs]

UshersInWorship ==
    Departments("dict", One(Dept(PyStr(S_Worship),
        SubDepartments("dict", One(SubDept(PyStr(S_Ushers), Positions("dict", One(PosA))))))))

DeptValues ==
    {Dept(PyStr(S_Worship),
          SubDepartments("dict", One(SubDept(PyStr(S_Ushers), Positions("dict", One(PosA)))))),
     Dept(PyStr(S_Welcome),
          SubDepartments("dict", Many(<<SubDept(PyStr(S_Ushers), Positions("dict", Many(<<PosA, PosB>>))),
                                        SubDept(PyStr(S_empty), Positions("dict", One(PosA)))>>))),
     Dept(Absent,
          SubDepartments("dict", Many(<<SubDept(PyStr(S_Greeters), Positions("dict", One(PosB))),
                                        SubDept(Absent, Positions("dict", One(PosA)))>>)))}

\* a department without sub-departments
BareDept == Dept(PyStr(S_Worship), SubDepartments("absent", NoField))

\* a department whose sub-departments have no positions
UnstaffedDept ==
    Dept(PyStr(S_Welcome),
         SubDepartments("dict", Many(<<SubDept(PyStr(S_Greeters), Positions("dict", Many(<< >>))),
                                       SubDept(PyStr(S_Ushers), Positions("absent", NoField))>>)))

DepartmentsValues ==
    {Departments(t, NoField) : t \in {"absent", "nondict"}} \cup
    {Departments("dict", One(d)) : d \in DeptValues \cup {BareDept, UnstaffedDept}} \cup
    {Departments("dict", Many(ds)) : ds \in SeqsUpTo(DeptValues, MaxDepts)}

\* P1 with every departments value; P2 and the people without an id with a few
RosterPeople ==
    {[id |-> PyStr(S_P1), departments |-> d] : d \in DepartmentsValues} \cup
    {[id |-> PyStr(S_P2), departments |-> d] :
        d \in {Departments("absent", NoField)} \cup {Departments("dict", One(x)) : x \in DeptValues}} \cup
    {[id |-> i, departments |-> UshersInWorship] : i \in {Absent, PyStr(S_empty)}}

NotExtracted == [done |-> FALSE, positions |-> << >>]

ExtractInit ==
    /\ roster \in SeqsUpTo(RosterPeople, MaxPeople)
    /\ extracted = NotExtracted

\* no extraction is modelled
ExtractIdle ==
    /\ roster = << >>
    /\ extracted = NotExtracted

Extract ==
    /\ ~extracted.done
    /\ extracted' = [done |-> TRUE, positions |-> extract_volunteer_positions_from_people(roster)]
    /\ UNCHANGED roster
    /\ UNCHANGED notExtractVars

----------------------------------------------------------------------------
(* filter_people applied to a request and the remote data *)

S_G1 == <<"G", "1">>
S_G2 == <<"G", "2">>
S_7 == <<"7">>
S_x == <<"x">>

Member(id, position) == [id |-> id, position |-> position]

\* the "people" field of a group
GroupPeople(t, f) == [t |-> t, person |-> f]

GroupPeopleValues ==
    {GroupPeople("absent", NoField),
     GroupPeople("dict", One(Member(PyStr(S_P1), PyStr(S_Leader)))),
     GroupPeople("dict", Many(<<Member(PyStr(S_P1), PyStr(S_Leader)),
                                Member(PyStr(S_P2), PyStr(S_Member))>>)),
     GroupPeople("dict", Many(<<Member(PyStr(S_P2), PyStr(S_LEADER)),
                                Member(Absent, PyStr(S_leader)),
                                Member(PyStr(S_P1), Absent)>>))}

Cat(id) == [id |-> id, name |-> id]

\* the "categories" value of a group
Categories(t, f) == [t |-> t, category |-> f]

CategoriesValues ==
    {Categories("absent", NoField),
     Categories("empty", NoField),
     Categories("str", NoField),
     Categories("dict", One(Cat(PyStr(S_c1)))),
     Categories("dict", Many(<<Cat(PyStr(S_c1)), Cat(PyStr(S_c2))>>)),
     Categories("dict", Many(<< >>)),
     Categories("dict", NoField),
     Categories("dict", One(Cat(Absent))),
     Categories("list", Many(<<Cat(PyStr(S_c2))>>))}

\* a remote group; listed tells whether the categories fetch returns it
Group(id, people, categories, listed) ==
    [id |-> id, name |-> id, people |-> people, categories |-> categories, listed |-> listed]

FirstGroups ==
    {Group(PyStr(S_G1), p, c, l) : p \in GroupPeopleValues, c \in CategoriesValues, l \in {TRUE}} \cup
    {Group(PyStr(S_G1), p, Categories("dict", One(Cat(PyStr(S_c1)))), FALSE) : p \in GroupPeopleValues}

SecondGroups ==
    {Group(i, GroupPeople("dict", One(Member(PyStr(S_P1), PyStr(S_leader)))), c, TRUE) :
        i \in {PyStr(S_G2), PyStr(S_G1), PyInt(7), Absent},
        c \in {Categories("absent", NoField), Categories("dict", One(Cat(PyStr(S_c2))))}}

GroupIdsValues ==
    {<< >>, <<PyStr(S_G1)>>, <<PyStr(S_G2), PyStr(S_G1)>>, <<PyStr(S_7), PyStr(S_G2)>>}

ExcludedGroupCategoryValues ==
    {<< >>, <<PyStr(S_no_category)>>, <<PyStr(S_c1)>>, <<PyStr(S_c2), PyStr(S_no_category)>>}

NoDemographics == [t |-> "absent", demographic |-> NoField]
ChildrenDemographics == [t |-> "dict", demographic |-> Many(<<[name |-> PyStr(S_Children)]>>)]

UshersAndGreeters ==
    Departments("dict", Many(<<
        Dept(PyStr(S_Welcome),
             SubDepartments("dict", Many(<<SubDept(PyStr(S_Ushers), Positions("dict", Many(<<PosA, PosB>>))),
                                           SubDept(PyStr(S_empty), Positions("dict", One(PosA)))>>))),
        Dept(Absent,
             SubDepartments("dict", Many(<<SubDept(PyStr(S_Greeters), Positions("dict", One(PosB))),
                                           SubDept(PyStr(S_Ushers), Positions("dict", One(PosB)))>>)))>>))

GreetersWithoutPositions ==
    Departments("dict", One(Dept(PyStr(S_Worship),
        SubDepartments("dict", One(SubDept(PyStr(S_Greeters), Positions("dict", Many(<< >>))))))))

Person(id, archived, category_id, demographics, departments) ==
    [id |-> id, archived |-> archived, category_id |-> category_id,
     demographics |-> demographics, departments |-> departments]

RemotePeople ==
    {Person(i, PyInt(0), Absent, NoDemographics, d) :
        i \in {PyStr(S_P1), PyStr(S_P2)},
        d \in {UshersInWorship, UshersAndGreeters, GreetersWithoutPositions, Departments("absent", NoField)}} \cup
    {Person(i, PyStr(S_1), Absent, NoDemographics, UshersInWorship) : i \in {PyStr(S_P1), PyStr(S_P2)}} \cup
    {Person(i, Absent, PyStr(S_c1), NoDemographics, UshersAndGreeters) : i \in {PyStr(S_P1), PyStr(S_P2)}} \cup
    {Person(i, PyInt(0), PyStr(S_c2), ChildrenDemographics, UshersInWorship) : i \in {PyStr(S_P1), PyStr(S_P2)}} \cup
    {Person(Absent, PyInt(0), Absent, NoDemographics, UshersInWorship)}

ServicePositionIdsValues ==
    {<< >>, <<PyStr(S_Ushers)>>, <<PyStr(S_Greeters), PyStr(S_Ushers)>>}

ExcludedCategoryValues == {<< >>, <<PyStr(S_c1)>>}

FailingValues == {"none", "groups_people", "groups_categories", "people"}

\* the group side of a run: the remote groups and the group fields of the request
GroupSides ==
    [groups : {<<g1, g2>> : g1 \in FirstGroups, g2 \in SecondGroups},
     group_ids : GroupIdsValues,
     excluded_group_category_ids : ExcludedGroupCategoryValues]

FewGroupSides ==
    {[groups |-> <<Group(PyStr(S_G1),
                         GroupPeople("dict", Many(<<Member(PyStr(S_P1), PyStr(S_Leader)),
                                                    Member(PyStr(S_P2), PyStr(S_Member))>>)),
                         Categories("dict", One(Cat(PyStr(S_c1)))), TRUE)>>,
      group_ids |-> ids,
      excluded_group_category_ids |-> << >>] : ids \in {<< >>, <<PyStr(S_G1)>>}}

\* the people side of a run: the remote people and the people fields of the request
PeopleSides ==
    [people : SeqsUpTo(RemotePeople, MaxFetched),
     service_position_ids : ServicePositionIdsValues,
     excluded_category_ids : ExcludedCategoryValues]

FewPeopleSides ==
    {[people |-> <<Person(PyStr(S_P1), PyInt(0), Absent, NoDemographics, UshersInWorship)>>,
      service_position_ids |-> ids,
      excluded_category_ids |-> << >>] : ids \in {<< >>, <<PyStr(S_Ushers)>>}}

NoResponseYet == [done |-> FALSE, people |-> << >>, count |-> 0]

FilterInit ==
    /\ \E gs \in GroupSides \cup FewGroupSides, ps \in PeopleSides \cup FewPeopleSides :
        /\ (gs \in FewGroupSides \/ ps \in FewPeopleSides)
        /\ request = [group_ids |-> gs.group_ids,
                      service_position_ids |-> ps.service_position_ids,
                      excluded_category_ids |-> ps.excluded_category_ids,
                      excluded_group_category_ids |-> gs.excluded_group_category_ids]
        /\ \E f \in FailingValues :
              upstream = [groups |-> gs.groups, people |-> ps.people, failing |-> f]
    /\ response = NoResponseYet

\* no filter request is modelled
FilterIdle ==
    /\ request = [group_ids |-> << >>, service_position_ids |-> << >>,
                  excluded_category_ids |-> << >>, excluded_group_category_ids |-> << >>]
    /\ upstream = [groups |-> << >>, people |-> << >>, failing |-> "none"]
    /\ response = NoResponseYet

\* POST /api/filter
FilterPeople ==
    /\ ~response.done
    /\ response' = filter_people(request, upstream)
    /\ UNCHANGED <<request, upstream>>
    /\ UNCHANGED notFilterVars

----------------------------------------------------------------------------
(* The endpoints of api/people.py, one call per run; filter_people is      *)
(* called a second time with the same request.                             *)

\* a category with an id and no name
NamelessCat == [id |-> PyStr(S_c1), name |-> Absent]

ListedCategoriesValues ==
    CategoriesValues \cup
    {Categories("dict", One(NamelessCat)),
     Categories("dict", Many(<<Cat(PyStr(S_c2)), Cat(PyStr(S_c1))>>))}

ListedFirstGroups ==
    {Group(PyStr(S_G1), p, c, TRUE) : p \in GroupPeopleValues, c \in ListedCategoriesValues} \cup
    {Group(PyStr(S_G1), p, Categories("dict", One(Cat(PyStr(S_c1)))), FALSE) : p \in GroupPeopleValues}

\* the remote groups of a list endpoint
ListedGroups ==
    {<< >>} \cup {<<g1>> : g1 \in ListedFirstGroups} \cup
    {<<g1, g2>> : g1 \in ListedFirstGroups, g2 \in SecondGroups}

FewListedGroups ==
    {<< >>,
     <<Group(PyStr(S_G1),
             GroupPeople("dict", Many(<<Member(PyStr(S_P1), PyStr(S_Leader)),
                                        Member(PyStr(S_P2), PyStr(S_Member))>>)),
             Categories("dict", One(Cat(PyStr(S_c1)))), TRUE)>>}

FewListedPeople ==
    {<< >>, <<Person(PyStr(S_P1), PyInt(0), Absent, NoDemographics, UshersInWorship)>>}

\* the answers of the remote people categories call
RemoteCategoriesValues ==
    [failing : BOOLEAN,
     categories : CategoriesValues \cup {Categories("dict", One(NamelessCat))}]

NoCategoriesCall == [failing |-> FALSE, categories |-> Categories("absent", NoField)]

NoReply == [done |-> FALSE, body |-> [status |-> "none"]]

NoFilterRequest ==
    [group_ids |-> << >>, service_position_ids |-> << >>,
     excluded_category_ids |-> << >>, excluded_group_category_ids |-> << >>]

\* no endpoint is called
ApiIdle ==
    /\ op = "none"
    /\ remote_categories = NoCategoriesCall
    /\ reply = NoReply
    /\ second = NoResponseYet

ApiInit ==
    /\ op \in {"filter", "groups-and-services", "categories", "group-categories"}
    /\ reply = NoReply
    /\ second = NoResponseYet
    /\ CASE op = "filter" ->
              /\ FilterInit
              /\ Len(upstream.people) < MaxFetched
              /\ remote_categories = NoCategoriesCall
         [] op = "groups-and-services" ->
              /\ request = NoFilterRequest
              /\ response = NoResponseYet
              /\ remote_categories = NoCategoriesCall
              /\ \E gs \in ListedGroups \cup FewListedGroups,
                    ps \in SeqsUpTo(RemotePeople, MaxFetched) \cup FewListedPeople,
                    f \in FailingValues :
                    /\ (gs \in FewListedGroups \/ ps \in FewListedPeople)
                    /\ upstream = [groups |-> gs, people |-> ps, failing |-> f]
         [] op = "group-categories" ->
              /\ request = NoFilterRequest
              /\ response = NoResponseYet
              /\ remote_categories = NoCategoriesCall
              /\ \E gs \in ListedGroups, f \in {"none", "groups_categories"} :
                    upstream = [groups |-> gs, people |-> << >>, failing |-> f]
         [] OTHER ->
              /\ FilterIdle
              /\ remote_categories \in RemoteCategoriesValues

\* POST /api/filter, the first call
FilterPeopleFirst ==
    /\ op = "filter"
    /\ FilterPeople

\* a second call that adds its records to those of the first call
FilterPeopleAgain_accumulating ==
    /\ op = "filter"
    /\ response.done
    /\ ~second.done
    /\ LET again == filter_people(request, upstream) IN
       second' = [done |-> TRUE,
                  people |-> response.people \o again.people,
                  count |-> Len(response.people \o again.people)]
    /\ UNCHANGED <<op, remote_categories, reply>>
    /\ UNCHANGED filterVars
    /\ UNCHANGED notApiVars

\* POST /api/filter, called again with the same request
FilterPeopleAgain ==
    /\ op = "filter"
    /\ response.done
    /\ ~second.done
    /\ second' = filter_people(request, upstream)
    /\ UNCHANGED <<op, remote_categories, reply>>
    /\ UNCHANGED filterVars
    /\ UNCHANGED notApiVars

\* POST /api/groups-and-services
GetGroupsAndServices ==
    /\ op = "groups-and-services"
    /\ ~reply.done
    /\ reply' = [done |-> TRUE, body |-> get_groups_and_service_positions(upstream)]
    /\ UNCHANGED <<op, remote_categories, second>>
    /\ UNCHANGED filterVars
    /\ UNCHANGED notApiVars

\* POST /api/categories
GetCategories ==
    /\ op = "categories"
    /\ ~reply.done
    /\ reply' = [done |-> TRUE, body |-> get_categories(remote_categories)]
    /\ UNCHANGED <<op, remote_categories, second>>
    /\ UNCHANGED filterVars
    /\ UNCHANGED notApiVars

\* POST /api/group-categories
GetGroupCategories ==
    /\ op = "group-categories"
    /\ ~reply.done
    /\ reply' = [done |-> TRUE, body |-> get_group_categories(upstream)]
    /\ UNCHANGED <<op, remote_categories, second>>
    /\ UNCHANGED filterVars
    /\ UNCHANGED notApiVars

----------------------------------------------------------------------------
(* Specifications: each runs one part of the program and leaves the        *)
(* variables of the others idle.                                           *)

\* a paginated fetch against a remote collection
Init == FetchInit /\ IncludeIdle /\ ExtractIdle /\ FilterIdle /\ ApiIdle

Next == FetchNextPage \/ FetchReturn \/ FetchRaise

Spec == Init /\ [][Next]_vars

\* the inclusion predicate on one person
InitInclude == IncludeInit /\ FetchIdle /\ ExtractIdle /\ FilterIdle /\ ApiIdle

NextInclude == ApplyPredicate

SpecInclude == InitInclude /\ [][NextInclude]_vars

\* the position extractor on a list of people
InitExtract == ExtractInit /\ FetchIdle /\ IncludeIdle /\ FilterIdle /\ ApiIdle

NextExtract == Extract

SpecExtract == InitExtract /\ [][NextExtract]_vars

\* filter_people on one request
InitFilter == FilterInit /\ FetchIdle /\ IncludeIdle /\ ExtractIdle /\ ApiIdle

NextFilter == FilterPeople

SpecFilter == InitFilter /\ [][NextFilter]_vars

\* one endpoint of api/people.py called by a client
InitApi == ApiInit /\ FetchIdle /\ IncludeIdle /\ ExtractIdle

NextApi ==
    FilterPeopleFirst \/ FilterPeopleAgain \/ GetGroupsAndServices \/ GetCategories \/ GetGroupCategories

SpecApi == InitApi /\ [][NextApi]_vars

\* a paginated fetch against a server that answers every request and may
\* report wrong pagination numbers; the loop is sequential code, so it takes
\* its next step whenever it has one
InitAnyServer == AnyServerInit /\ IncludeIdle /\ ExtractIdle /\ FilterIdle /\ ApiIdle

\* no run of the model requests more pages than this
MaxPages == MaxItems \div page_size + 3

\* the next page is requested and answered
FetchNextPageAnswered ==
    /\ page < MaxPages
    /\ FetchNextPage

NextAnyServer == FetchNextPageAnswered \/ FetchReturn

SpecAnyServer == InitAnyServer /\ [][NextAnyServer]_vars /\ WF_vars(NextAnyServer)

----------------------------------------------------------------------------
(* Properties of the paginated fetch *)

\* ceil(n / page_size), at least one
PagesOf(n) == IF n = 0 THEN 1 ELSE (n + page_size - 1) \div page_size

\* the server reports total accurately and misreports nothing
HonestServer ==
    /\ srv.total \in {"int", "str"}
    /\ srv.per_page \in {"int", "absent"}
    /\ srv.on_this_page \in {"int", "absent"}

GroupFetch == kind \in {"groups_people", "groups_categories"}

\* C1: against a server that holds N items, serves them in pages of
\* page_size and reports total = N, a group fetch that returns has requested
\* exactly the pages 1..ceil(N / page_size) (page 1 when N = 0) and returns
\* the N items, each once, in page order.
C1_GroupFetchReturnsAllItems ==
    (GroupFetch /\ HonestServer /\ pc = "returned") =>
        /\ result.returned
        /\ result.items = UpTo(srv.n)
        /\ requests = UpTo(PagesOf(srv.n))

\* the example of C1: 250 items fetched as pages of 100, 100 and 50
C1_Witness ==
    /\ kind = "groups_people" /\ HonestServer /\ pc = "returned"
    /\ srv.n = 250 /\ requests = <<1, 2, 3>>
    /\ last.count = 50 /\ Len(result.items) = 250

\* the items the server has sent so far, for a server that serves full pages
Received == IF last.page = 0 THEN 0 ELSE (last.page - 1) * page_size + last.count

\* the page in last was empty or missing, or held fewer items than page_size
C2_ShortPage ==
    \/ last.shape \in {"nodata", "nokey", "emptylist"}
    \/ last.count < page_size

\* C2: pages are requested in the order 1, 2, 3, ... with none skipped or
\* repeated, and after a page was received the fetch stops exactly when the
\* page was empty or missing, or held fewer items than the page size, or the
\* accumulated count has reached the reported total; otherwise it goes on to
\* the next page.  Stated for servers that report total accurately and
\* misreport nothing, and with the accumulated count read as the items kept
\* or as the items received, whichever agrees with the fetch.
C2_StopsExactlyWhenClaimed ==
    /\ requests = UpTo(Len(requests))
    /\ (HonestServer /\ last.page >= 1 /\ pc = "returned") =>
           (C2_ShortPage \/ Len(all_items) >= srv.n \/ Received >= srv.n)
    /\ (HonestServer /\ last.page >= 1 /\ pc = "fetching") =>
           ~(C2_ShortPage \/ Len(all_items) >= srv.n)

\* C3: when the request for a page fails, the fetch raises one error, returns
\* nothing of what it accumulated, and the failed page is the last request:
\* each page up to it was requested once and no later page is requested.
C3_FailureAbortsFetch ==
    /\ (error # "none") <=> (pc = "raised")
    /\ pc = "raised" =>
        /\ ~result.returned
        /\ result.items = << >>
        /\ requests = UpTo(page)

\* a fetch failing on page 2 with the 100 items of page 1 accumulated
C3_Witness ==
    /\ pc = "raised" /\ page = 2 /\ Len(all_items) = page_size
    /\ requests = <<1, 2>> /\ ~result.returned

----------------------------------------------------------------------------
(* Properties of the inclusion predicate *)

\* s equals the word written lo in lower case and up in upper case, ignoring case
EqIgnoreCase(s, lo, up) == Len(s) = Len(lo) /\ \A k \in 1..Len(s) : s[k] \in {lo[k], up[k]}

\* the archived marker is integer 1, string "1", boolean true or "true" in any case
ArchivedMarked(p) ==
    \/ p.archived = PyInt(1)
    \/ p.archived = PyStr(S_1)
    \/ p.archived = PyBool(TRUE)
    \/ p.archived.t = "str" /\ EqIgnoreCase(p.archived.s, S_true, S_TRUE)

\* the category_id of p (empty when p has none) is one of the excluded ids
CategoryExcluded(p, ex) ==
    LET cid == IF p.category_id = Absent THEN PyStr(S_empty) ELSE p.category_id IN
    ex.t = "list" /\ \E k \in 1..Len(ex.xs) : ex.xs[k] = cid

\* the demographic tags of p, whether given as one object or as a list
TagsOf(p) == IF p.demographics.t = "dict" THEN p.demographics.demographic.xs ELSE << >>

HasTag(p, lo, up) ==
    \E k \in 1..Len(TagsOf(p)) :
        TagsOf(p)[k].name.t = "str" /\ EqIgnoreCase(TagsOf(p)[k].name.s, lo, up)

\* the tags are non-empty, name "children" and do not name "adults"
ChildrenOnly(p) ==
    /\ TagsOf(p) # << >>
    /\ HasTag(p, S_children, S_CHILDREN)
    /\ ~HasTag(p, S_adults, S_ADULTS)

\* C4: should_include_person (API layer and client) returns true exactly when
\* the archived marker is none of integer 1, string "1", boolean true or
\* "true" in any case, the category_id is not excluded and the person is an
\* adult.
C4_IncludedIffAllChecksPass ==
    verdict.set =>
        LET expected == /\ ~ArchivedMarked(subject)
                        /\ ~CategoryExcluded(subject, subject_excl)
                        /\ ~ChildrenOnly(subject) IN
        /\ verdict.api = expected
        /\ verdict.client = expected

\* archived = "TRUE" excludes an Adults person of a category that is not excluded
C4_Witness ==
    /\ verdict.set /\ ~verdict.api /\ ~verdict.client
    /\ subject.archived = PyStr(S_TRUE)
    /\ subject.category_id = PyStr(S_c1) /\ subject_excl = Many(<<>>)
    /\ subject.demographics = [t |-> "dict", demographic |-> One([name |-> PyStr(S_Adults)])]

\* C5: the adult check answers "not adult" exactly when the demographic tags
\* are non-empty, contain "children" and do not contain "adults", both
\* ignoring case.
C5_NotAdultIffChildrenOnly ==
    verdict.set =>
        /\ verdict.api_adult = ~ChildrenOnly(subject)
        /\ verdict.client_adult = ~ChildrenOnly(subject)

\* a person tagged Adults and CHILDREN is an adult
C5_Witness ==
    /\ verdict.set /\ verdict.api_adult /\ verdict.client_adult
    /\ subject.demographics =
           [t |-> "dict",
            demographic |-> Many(<<[name |-> PyStr(S_Adults)], [name |-> PyStr(S_CHILDREN)]>>)]

\* C21: the module-level should_include_person of the API layer and
\* ElvantoClient.should_include_person return the same boolean for every
\* person record and every excluded-category list, the omitted list included;
\* so do the two adult checks they call.
C21_ImplementationsAgree ==
    verdict.set =>
        /\ verdict.api = verdict.client
        /\ verdict.api_adult = verdict.client_adult

\* with the list omitted, both implementations reject a person who is not
\* archived, has a category and is tagged Children only
C21_Witness ==
    /\ verdict.set
    /\ subject_excl.t = "none"
    /\ subject.archived = PyInt(0) /\ subject.category_id = PyStr(S_c2)
    /\ subject.demographics = [t |-> "dict", demographic |-> One([name |-> PyStr(S_Children)])]
    /\ ~verdict.api /\ ~verdict.client

----------------------------------------------------------------------------
(* Properties of the position extractor *)

\* the departments of a person, the sub-departments of a department and the
\* positions of a sub-department, as plain sequences
DeptsOf(p) == IF p.departments.t = "dict" THEN p.departments.department.xs ELSE << >>
SubsOf(d) == IF d.sub_departments.t = "dict" THEN d.sub_departments.sub_department.xs ELSE << >>
PositionsOf(sd) == IF sd.positions.t = "dict" THEN sd.positions.position.xs ELSE << >>

HasId(p) == p.id.t = "str" /\ p.id.s # << >>
HasName(sd) == sd.name.t = "str" /\ sd.name.s # << >>

\* the occurrences <<person, department, sub-department>> in the people ps of
\* a named sub-department with at least one position under a person with an id
Occurrences(ps) ==
    {o \in (1..Len(ps)) \X (1..MaxDepts + 1) \X (1..2) :
        /\ HasId(ps[o[1]])
        /\ o[2] <= Len(DeptsOf(ps[o[1]]))
        /\ o[3] <= Len(SubsOf(DeptsOf(ps[o[1]])[o[2]]))
        /\ HasName(SubsOf(DeptsOf(ps[o[1]])[o[2]])[o[3]])
        /\ PositionsOf(SubsOf(DeptsOf(ps[o[1]])[o[2]])[o[3]]) # << >>}

OccPerson(ps, o) == ps[o[1]].id
OccDept(ps, o) == DeptsOf(ps[o[1]])[o[2]]
OccSub(ps, o) == SubsOf(DeptsOf(ps[o[1]])[o[2]])[o[3]]

\* the name of the parent department, "Unknown" when it has none
OccDeptName(ps, o) == IF OccDept(ps, o).name = Absent THEN PyStr(S_Unknown) ELSE OccDept(ps, o).name

\* walk order: person, then department, then sub-department
Before(o1, o2) ==
    \/ o1[1] < o2[1]
    \/ o1[1] = o2[1] /\ o1[2] < o2[2]
    \/ o1[1] = o2[1] /\ o1[2] = o2[2] /\ o1[3] < o2[3]

\* the occurrences of the sub-department name n
OccurrencesOf(ps, n) == {o \in Occurrences(ps) : OccSub(ps, o).name = n}

FirstOf(S) == CHOOSE o \in S : \A o2 \in S \ {o} : Before(o, o2)
LastOf(S) == CHOOSE o \in S : \A o2 \in S \ {o} : Before(o2, o)

\* C6: the extractor returns one entry per distinct non-empty sub-department
\* name that has a position, whatever departments it occurs under, with
\* id = name = that name, and its volunteers are exactly the ids of the people
\* assigned under a sub-department of that name.
C6_OneEntryPerSubDepartmentName ==
    extracted.done =>
        LET ps == extracted.positions IN
        /\ \A j, k \in 1..Len(ps) : ps[j].id = ps[k].id => j = k
        /\ {ps[k].id : k \in 1..Len(ps)} = {OccSub(roster, o).name : o \in Occurrences(roster)}
        /\ \A k \in 1..Len(ps) :
            /\ ps[k].name = ps[k].id
            /\ ps[k].volunteers = {OccPerson(roster, o) : o \in OccurrencesOf(roster, ps[k].id)}

\* P1 under Worship/Ushers and P2 under Welcome/Ushers give one entry "Ushers"
C6_Witness ==
    /\ extracted.done
    /\ Len(roster) = 2
    /\ roster[1].id = PyStr(S_P1) /\ roster[2].id = PyStr(S_P2)
    /\ \E o1, o2 \in OccurrencesOf(roster, PyStr(S_Ushers)) :
          /\ o1[1] = 1 /\ o2[1] = 2
          /\ OccDeptName(roster, o1) = PyStr(S_Worship)
          /\ OccDeptName(roster, o2) = PyStr(S_Welcome)
    /\ Len(extracted.positions) = 1
    /\ extracted.positions[1].id = PyStr(S_Ushers)
    /\ extracted.positions[1].volunteers = {PyStr(S_P1), PyStr(S_P2)}

\* C7 as stated: the department of a collapsed position is that of the last
\* occurrence of its sub-department in walk order.
C7_DepartmentOfLastOccurrence ==
    extracted.done =>
        \A k \in 1..Len(extracted.positions) :
            LET occ == OccurrencesOf(roster, extracted.positions[k].id) IN
            occ # {} => extracted.positions[k].department = OccDeptName(roster, LastOf(occ))

\* C7 amended: the department of a collapsed position is that of the first
\* occurrence of its sub-department in walk order (person, then department,
\* then sub-department); later occurrences never change it.
C7_DepartmentOfFirstOccurrence ==
    extracted.done =>
        \A k \in 1..Len(extracted.positions) :
            LET occ == OccurrencesOf(roster, extracted.positions[k].id) IN
            /\ occ # {}
            /\ extracted.positions[k].department = OccDeptName(roster, FirstOf(occ))

\* one sub-department name first under Worship and last under Welcome
C7_Witness ==
    /\ extracted.done
    /\ \E k \in 1..Len(extracted.positions) :
          LET occ == OccurrencesOf(roster, extracted.positions[k].id) IN
          /\ Cardinality(occ) >= 2
          /\ OccDeptName(roster, FirstOf(occ)) = PyStr(S_Worship)
          /\ OccDeptName(roster, LastOf(occ)) = PyStr(S_Welcome)
          /\ extracted.positions[k].department = PyStr(S_Worship)

\* the set of the elements of a sequence
Range(xs) == {xs[k] : k \in 1..Len(xs)}

\* the position ids the per-person walk finds for p
WalkIds(p) == {e.id : e \in Range(get_person_positions_from_departments(p))}

\* the volunteers the extractor returned under the key k
VolunteersOf(k) ==
    UNION {e.volunteers : e \in {x \in Range(extracted.positions) : x.id = k}}

\* every key of the extractor and every position id of a walk
PositionKeys ==
    {e.id : e \in Range(extracted.positions)} \cup UNION {WalkIds(p) : p \in Range(roster)}

\* C20 as stated: for every person p of the list with a non-empty id and
\* every key k, the id of p is among the volunteers the extractor returns
\* under k exactly when the walk of p has an entry with id k.
C20_VolunteerIffOwnWalkHasKey ==
    extracted.done =>
        \A p \in Range(roster) : HasId(p) =>
            \A k \in PositionKeys : (p.id \in VolunteersOf(k)) <=> (k \in WalkIds(p))

\* C20 amended: for every person p of the list with a non-empty id and
\* every key k, the id of p is among the volunteers the extractor returns
\* under k exactly when the walk of a person of the list with the id of p
\* has an entry with id k; for a list without repeated ids that is the walk
\* of p itself.
C20_VolunteerIffWalkOfThatIdHasKey ==
    extracted.done =>
        /\ \A p \in Range(roster) : HasId(p) =>
              \A k \in PositionKeys :
                  (p.id \in VolunteersOf(k))
                      <=> (\E q \in Range(roster) : q.id = p.id /\ k \in WalkIds(q))
        /\ \A k \in PositionKeys : \A v \in VolunteersOf(k) : \E p \in Range(roster) : HasId(p) /\ p.id = v

\* P1 serves under Ushers and P2 under Greeters: each is counted under its
\* own position only
C20_Witness ==
    /\ extracted.done
    /\ Len(roster) = 2
    /\ roster[1].id = PyStr(S_P1) /\ roster[2].id = PyStr(S_P2)
    /\ WalkIds(roster[1]) = {PyStr(S_Ushers)}
    /\ WalkIds(roster[2]) = {PyStr(S_Greeters)}
    /\ VolunteersOf(PyStr(S_Ushers)) = {PyStr(S_P1)}
    /\ VolunteersOf(PyStr(S_Greeters)) = {PyStr(S_P2)}

----------------------------------------------------------------------------
(* Properties of filter_people *)

\* the remote groups as filter_people sees them after the merge
MergedGroups ==
    MergeCategories(FetchGroupsWithPeople(upstream.groups), FetchGroupsWithCategories(upstream.groups))

\* the group id as the request and the response write it
GroupIdOf(g) == PyStr(Str(IF g.id = Absent THEN PyStr(S_empty) ELSE g.id))

\* the ids of the members of g with a non-empty id whose position is
\* "Leader" ignoring case
LeaderIdsOf(g) ==
    IF g.people.t # "dict" THEN {}
    ELSE {m.id : m \in {x \in Range(g.people.person.xs) :
                           /\ x.id.t = "str" /\ x.id.s # << >>
                           /\ x.position.t = "str"
                           /\ EqIgnoreCase(x.position.s, S_leader, S_LEADER)}}

\* the group is requested and filter_people does not exclude it
RequestedAndKept(g) ==
    /\ GroupIdOf(g) \in Range(request.group_ids)
    /\ ~group_has_excluded_category(g, request.excluded_group_category_ids)

GroupFetchesWork == upstream.failing \notin {"groups_people", "groups_categories"}

\* C8: the group entries of the response are exactly one {group id, group
\* name, role "Leader"} per person and requested, non-excluded group in which
\* the person is a member with a non-empty id and position "Leader" ignoring
\* case; members with another position and groups that were not requested
\* contribute nothing.
C8_GroupsContributeExactlyTheirLeaders ==
    (response.done /\ GroupFetchesWork) =>
        /\ \A r \in Range(response.people) :
            /\ \A j, k \in 1..Len(r.groups) : r.groups[j].id = r.groups[k].id => j = k
            /\ \A e \in Range(r.groups) :
                /\ e.role = S_Leader
                /\ \E g \in Range(MergedGroups) :
                    /\ RequestedAndKept(g)
                    /\ e.id = GroupIdOf(g) /\ e.name = g.name
                    /\ r.id \in LeaderIdsOf(g)
            /\ (r.groups = << >> => r.service_positions # << >>)
        /\ \A g \in Range(MergedGroups) :
            RequestedAndKept(g) =>
                \A pid \in LeaderIdsOf(g) :
                    \E r \in Range(response.people) :
                        r.id = pid /\ \E e \in Range(r.groups) : e.id = GroupIdOf(g)

\* G1 with P1 as Leader and P2 as Member, requested alone, yields exactly P1
C8_Witness ==
    /\ response.done /\ GroupFetchesWork
    /\ request.group_ids = <<PyStr(S_G1)>> /\ request.service_position_ids = << >>
    /\ Len(upstream.groups) = 2
    /\ upstream.groups[1].people =
           GroupPeople("dict", Many(<<Member(PyStr(S_P1), PyStr(S_Leader)),
                                      Member(PyStr(S_P2), PyStr(S_Member))>>))
    /\ upstream.groups[2].id = PyStr(S_G2)
    /\ response.people = <<[id |-> PyStr(S_P1),
                            groups |-> <<[id |-> PyStr(S_G1), name |-> PyStr(S_G1), role |-> S_Leader]>>,
                            service_positions |-> << >>]>>

\* the category ids a group carries: the non-empty ids of its categories, and
\* "__no_category__" when the categories field is absent or its list is empty
CarriedCategoryIds(g) ==
    LET c == g.categories IN
    {x.id : x \in {y \in Range(IF c.t \in {"dict", "list"} THEN c.category.xs ELSE << >>) :
                      y.id.t = "str" /\ y.id.s # << >>}}
    \cup (IF c.t \in {"absent", "empty"} \/ (c.t = "dict" /\ c.category.xs = << >>)
          THEN {PyStr(S_no_category)} ELSE {})

\* C9: a requested group with a leader contributes to the response exactly
\* when it carries none of the excluded group-category ids, a group without a
\* categories field and a group with an empty category list both carrying
\* "__no_category__".
C9_GroupExcludedIffCarriesExcludedCategory ==
    (response.done /\ GroupFetchesWork) =>
        \A g \in Range(MergedGroups) :
            (GroupIdOf(g) \in Range(request.group_ids) /\ LeaderIdsOf(g) # {}) =>
                ((\E r \in Range(response.people) : \E e \in Range(r.groups) : e.id = GroupIdOf(g))
                 <=> CarriedCategoryIds(g) \cap Range(request.excluded_group_category_ids) = {})

\* a group with an empty category list, requested with "__no_category__"
\* excluded, contributes nothing although it has a leader
C9_Witness ==
    /\ response.done /\ GroupFetchesWork
    /\ request.group_ids = <<PyStr(S_G1)>>
    /\ request.excluded_group_category_ids = <<PyStr(S_no_category)>>
    /\ Len(upstream.groups) = 2
    /\ upstream.groups[1].categories = Categories("dict", Many(<< >>))
    /\ upstream.groups[1].listed
    /\ upstream.groups[2].id = PyStr(S_G2)
    /\ LeaderIdsOf(upstream.groups[1]) # {}
    /\ response.people = << >>

\* the remote people with the id pid that pass should_include_person
PassingPeople(pid) ==
    {q \in Range(upstream.people) :
        q.id = pid /\ should_include_person(q, Many(request.excluded_category_ids))}

\* the requested position ids the person q has: its sub-department names
\* with a position under them that are in service_position_ids
MatchedIdsOf(q) ==
    {OccSub(<<q>>, o).name : o \in Occurrences(<<q>>)} \cap Range(request.service_position_ids)

\* C10: with service positions requested, the record of a person id has
\* service_positions entries exactly when a fetched person with that id
\* passes should_include_person and has a requested position; the entries are
\* then one {id, name, department} per distinct matched position id.
C10_ServicePositionsOfPassingPeople ==
    (response.done /\ upstream.failing # "people" /\ request.service_position_ids # << >>) =>
        /\ \A q \in Range(upstream.people) :
            HasId(q) =>
                LET matched == UNION {MatchedIdsOf(x) : x \in PassingPeople(q.id)}
                    recs == {r \in Range(response.people) : r.id = q.id /\ r.service_positions # << >>} IN
                /\ (recs # {}) <=> (matched # {})
                /\ \A r \in recs :
                    /\ {e.id : e \in Range(r.service_positions)} = matched
                    /\ \A j, k \in 1..Len(r.service_positions) :
                           r.service_positions[j].id = r.service_positions[k].id => j = k
                    /\ \A e \in Range(r.service_positions) :
                        /\ e.name = e.id
                        /\ \E x \in PassingPeople(q.id) : \E o \in OccurrencesOf(<<x>>, e.id) :
                               e.department = OccDeptName(<<x>>, o)
        /\ \A r \in Range(response.people) :
            r.service_positions # << >> => \E q \in Range(upstream.people) : q.id = r.id

\* P1 has Ushers under two departments and Greeters, P2 is archived: only P1
\* gains entries, one for Greeters and one for Ushers
C10_Witness ==
    /\ response.done /\ upstream.failing = "none"
    /\ request.service_position_ids = <<PyStr(S_Greeters), PyStr(S_Ushers)>>
    /\ request.group_ids = << >>
    /\ Len(upstream.people) = 2
    /\ upstream.people = <<Person(PyStr(S_P1), PyInt(0), Absent, NoDemographics, UshersAndGreeters),
                           Person(PyStr(S_P2), PyStr(S_1), Absent, NoDemographics, UshersInWorship)>>
    /\ Len(response.people) = 1
    /\ response.people[1].id = PyStr(S_P1)
    /\ Len(response.people[1].service_positions) = 2

\* the person ids matched as a leader of a requested, non-excluded group
LeaderMatchedIds ==
    IF request.group_ids = << >> \/ ~GroupFetchesWork THEN {}
    ELSE UNION {LeaderIdsOf(g) : g \in {x \in Range(MergedGroups) : RequestedAndKept(x)}}

\* the person ids matched by a requested service position
PositionMatchedIds ==
    IF request.service_position_ids = << >> \/ upstream.failing = "people" THEN {}
    ELSE {q.id : q \in {x \in Range(upstream.people) :
                           /\ HasId(x)
                           /\ should_include_person(x, Many(request.excluded_category_ids))
                           /\ MatchedIdsOf(x) # {}}}

\* C11: the response holds exactly one record per distinct matched person
\* id; a person matched as a leader and by a service position has one record
\* with both lists populated; no two records share an id, no groups list
\* holds a group id twice, and count is the number of records.
C11_OneRecordPerMatchedPerson ==
    response.done =>
        LET rs == response.people IN
        /\ \A j, k \in 1..Len(rs) : rs[j].id = rs[k].id => j = k
        /\ {rs[k].id : k \in 1..Len(rs)} = LeaderMatchedIds \cup PositionMatchedIds
        /\ \A k \in 1..Len(rs) :
            /\ (rs[k].groups # << >>) <=> (rs[k].id \in LeaderMatchedIds)
            /\ (rs[k].service_positions # << >>) <=> (rs[k].id \in PositionMatchedIds)
            /\ \A a, b \in 1..Len(rs[k].groups) : rs[k].groups[a].id = rs[k].groups[b].id => a = b
        /\ response.count = Len(rs)

\* P1 leads G1 and serves as an usher: one record with both lists populated
C11_Witness ==
    /\ response.done
    /\ PyStr(S_P1) \in LeaderMatchedIds \cap PositionMatchedIds
    /\ response.count = 1
    /\ response.people[1].id = PyStr(S_P1)
    /\ response.people[1].groups # << >>
    /\ response.people[1].service_positions # << >>

----------------------------------------------------------------------------
(* Properties of the endpoints *)

\* the two collections the merge starts from
PeopleEnriched == FetchGroupsWithPeople(upstream.groups)
CategoriesEnriched == FetchGroupsWithCategories(upstream.groups)

\* the categories values of the groups of the categories-enriched
\* collection that have the id of g
CategoriesOfId(g) ==
    {c.categories : c \in {x \in Range(CategoriesEnriched) : x.id # Absent /\ x.id = g.id}}

NoCategoryInfo == [t |-> "absent", category |-> NoField]

\* merged is the merge of the two collections as C12 describes it
IsMergeOf(merged) ==
    /\ Len(merged) = Len(PeopleEnriched)
    /\ \A k \in 1..Len(merged) :
        /\ merged[k].id = PeopleEnriched[k].id
        /\ merged[k].name = PeopleEnriched[k].name
        /\ merged[k].people = PeopleEnriched[k].people
        /\ merged[k].people = upstream.groups[k].people
        /\ IF CategoriesOfId(merged[k]) # {}
           THEN merged[k].categories \in CategoriesOfId(merged[k])
           ELSE /\ merged[k].categories = NoCategoryInfo
                /\ CategoryIdsOf(merged[k]) = <<PyStr(S_no_category)>>
                /\ \A E \in ExcludedGroupCategoryValues :
                       group_has_excluded_category(merged[k], E) <=> PyStr(S_no_category) \in Range(E)

\* the group items of the selection list, one per merged group with an id
ListedItemsOf(merged) ==
    LET has_id(g) == Truthy(g.id) IN SelectSeq(merged, has_id)

\* C12: in filter_people and in the selection list the merge yields the
\* groups of the people-enriched collection, in order and with their people
\* unchanged; a group whose id occurs in the categories-enriched collection
\* has the categories value stored there under its id, and a group whose id
\* does not occur there has no category info: the selection list gives it
\* category_ids ["__no_category__"] and the exclusion check excludes it
\* exactly when "__no_category__" is excluded.
C12_MergeKeepsGroupsAndAddsCategories ==
    /\ (op = "filter" /\ response.done /\ GroupFetchesWork) => IsMergeOf(MergedGroups)
    /\ (op = "groups-and-services" /\ reply.done /\ GroupFetchesWork) =>
        LET merged == MergeCategoriesInPlace(PeopleEnriched, CategoriesEnriched)
            listed == ListedItemsOf(merged) IN
        /\ IsMergeOf(merged)
        /\ Len(reply.body.group_items) = Len(listed)
        /\ \A k \in 1..Len(listed) :
            /\ reply.body.group_items[k].id = GroupIdOf(listed[k])
            /\ (CategoriesOfId(listed[k]) = {} =>
                   reply.body.group_items[k].category_ids = <<PyStr(S_no_category)>>)

\* G1 is missing from the categories-enriched collection and G2 is in it
\* with category c2: the selection list shows G1 without category and G2
\* with c2
C12_Witness ==
    /\ op = "groups-and-services" /\ reply.done /\ GroupFetchesWork
    /\ Len(upstream.groups) = 2
    /\ ~upstream.groups[1].listed
    /\ upstream.groups[2].id = PyStr(S_G2)
    /\ upstream.groups[2].categories = Categories("dict", One(Cat(PyStr(S_c2))))
    /\ Len(reply.body.group_items) = 2
    /\ reply.body.group_items[1].category_ids = <<PyStr(S_no_category)>>
    /\ reply.body.group_items[2].category_ids = <<PyStr(S_c2)>>

\* the non-empty category ids found in the categories value of g
CategoryIdSetOf(g) ==
    LET c == g.categories IN
    {x.id : x \in {y \in Range(IF c.t \in {"dict", "list"} THEN c.category.xs ELSE << >>) :
                      y.id.t = "str" /\ y.id.s # << >>}}

SyntheticEntry == [id |-> PyStr(S_no_category), name |-> PyStr(S_NoCategory)]

\* C13: the group-categories response has the entry {"__no_category__",
\* "No Category"} as its first entry exactly when a fetched group has no
\* category (categories absent, empty, or yielding no category id), and
\* otherwise does not have it at all.
C13_SyntheticEntryIffGroupWithoutCategory ==
    (op = "group-categories" /\ reply.done /\ reply.body.status = "ok") =>
        LET cats == reply.body.categories IN
        IF \E g \in Range(CategoriesEnriched) : CategoryIdSetOf(g) = {}
        THEN /\ cats # << >>
             /\ cats[1] = SyntheticEntry
             /\ \A k \in 2..Len(cats) : cats[k].id # PyStr(S_no_category)
        ELSE \A k \in 1..Len(cats) : cats[k].id # PyStr(S_no_category)

\* the run with every fetch working
Working == [upstream EXCEPT !.failing = "none"]

PeopleFetchWorks == upstream.failing # "people"

\* C14: in the selection list and in filter_people a failed group fetch
\* empties the group sub-result only and a failed people fetch empties the
\* position sub-result only: the response is a success, holds the other
\* sub-result as a run without failure gives it, and nothing of the failed
\* fetch.
C14_FailureDegradesOneSubResult ==
    /\ (op = "groups-and-services" /\ reply.done) =>
        LET full == get_groups_and_service_positions(Working) IN
        /\ reply.body.status = "ok"
        /\ reply.body.count = Len(reply.body.group_items) + Len(reply.body.position_items)
        /\ reply.body.group_items = IF GroupFetchesWork THEN full.group_items ELSE << >>
        /\ reply.body.position_items = IF PeopleFetchWorks THEN full.position_items ELSE << >>
        /\ {e.id.s : e \in Range(full.position_items)} =
               {OccSub(upstream.people, o).name.s : o \in Occurrences(upstream.people)}
        /\ Len(full.group_items) = Cardinality({k \in 1..Len(upstream.groups) : upstream.groups[k].id # Absent})
    /\ (op = "filter" /\ response.done) =>
        /\ GroupFetchesWork \/ PeopleFetchWorks
        /\ ~GroupFetchesWork =>
            /\ \A r \in Range(response.people) : r.groups = << >>
            /\ response = filter_people([request EXCEPT !.group_ids = << >>], Working)
        /\ ~PeopleFetchWorks =>
            /\ \A r \in Range(response.people) : r.service_positions = << >>
            /\ response = filter_people([request EXCEPT !.service_position_ids = << >>], Working)

\* the group fetch fails and the people fetch works: the selection list
\* holds the position Ushers and no group
C14_Witness ==
    /\ op = "groups-and-services" /\ reply.done
    /\ upstream.failing = "groups_people"
    /\ upstream.groups # << >>
    /\ reply.body.status = "ok"
    /\ reply.body.group_items = << >>
    /\ \E e \in Range(reply.body.position_items) : e.id = PyStr(S_Ushers) /\ e.member_count = 2

\* the remote call of the endpoint fails
RemoteCallFails ==
    \/ op = "categories" /\ remote_categories.failing
    \/ op = "group-categories" /\ upstream.failing = "groups_categories"

\* C15: when the remote call of the categories endpoint or of the
\* group-categories endpoint fails, the endpoint answers with an error
\* response and never with a success response.
C15_FailedCallGivesErrorResponse ==
    (reply.done /\ RemoteCallFails) => reply.body.status = "error"

\* the person ids of a filter_people response
IdsOf(resp) == {r.id : r \in Range(resp.people)}

\* the group entries and the service-position entries of person pid
GroupEntriesOf(resp, pid) ==
    UNION {Range(r.groups) : r \in {x \in Range(resp.people) : x.id = pid}}
PositionEntriesOf(resp, pid) ==
    UNION {Range(r.service_positions) : r \in {x \in Range(resp.people) : x.id = pid}}

C19_SelectionListAndFilterAgree ==
    (op = "groups-and-services" /\ reply.done /\ GroupFetchesWork) =>
        LET listed == ListedItemsOf(MergeCategoriesInPlace(PeopleEnriched, CategoriesEnriched)) IN
        /\ Len(reply.body.group_items) = Len(listed)
        /\ \A k \in 1..Len(listed) : \A E \in ExcludedGroupCategoryValues :
               group_has_excluded_category(listed[k], E)
                   <=> Range(E) \cap Range(reply.body.group_items[k].category_ids) # {}

----------------------------------------------------------------------------
(* Properties of the fetch against any server *)

\* the number of non-empty pages of a collection of n items
NonEmptyPages(n) == (n + page_size - 1) \div page_size

\* C17: against a server with a finite collection, whatever total, per_page
\* and on_this_page it reports, every paginated fetch makes at most one
\* request beyond the last non-empty page and then returns.
C17_FetchTerminates ==
    /\ [](/\ Len(requests) <= NonEmptyPages(srv.n) + 1
          /\ requests = UpTo(Len(requests))
          /\ page < MaxPages)
    /\ <>(pc = "returned")

\* 200 items, total and on_this_page overstated: three requests, the last
\* one answered with an empty page
C17_Witness ==
    /\ pc = "returned"
    /\ srv.n = 2 * page_size /\ srv.total = "over" /\ srv.on_this_page = "over"
    /\ requests = <<1, 2, 3>>
    /\ last.count = 0
    /\ Len(result.items) = 2 * page_size

----------------------------------------------------------------------------
(* Properties of the people fetch *)

\* the items of the whole remote collection that pass should_include_person,
\* in server order
IncludedItems ==
    LET passes(i) == should_include_person(PersonAt(srv, i), NoExcluded) IN
    SelectSeq(UpTo(srv.n), passes)

\* C18: against a server that reports total and per_page accurately, the
\* people fetch with adults_only returns exactly the people of the whole
\* collection that pass should_include_person, in server order, whether the
\* server reports on_this_page or not.
C18_FilterNeverTruncatesPagination ==
    (/\ kind = "people" /\ adults_only /\ pc = "returned"
     /\ srv.total \in {"int", "str"} /\ srv.per_page = "int"
     /\ srv.on_this_page \in {"int", "absent"}) =>
        result.items = IncludedItems

====
